---- MODULE Spec2Model ----
(***************************************************************************)
(* The asynchronous generation lifecycle of the image-generation backend:  *)
(* createGeneration / processGeneration / cancelGeneration /               *)
(* retryGeneration / deleteGeneration over the Generation collection and   *)
(* the credit balance of the owning User document, with the payments,      *)
(* refunds, admin requests and sessions that touch the same documents.     *)
(*                                                                         *)
(* Every `await` of the source is a scheduling point: an action below is   *)
(* the code that runs between two awaits.  A document loaded with          *)
(* findById/findOne is an in-memory copy; save() writes only the paths     *)
(* that were modified on that copy.  req.user is the copy authenticateToken*)
(* loaded before the handler ran.                                          *)
(*                                                                         *)
(* Spec is the generation lifecycle under cancel, retry and delete         *)
(* requests of the owner and delete requests of an admin.                  *)
(* HelperSpec follows one call of callFalAI, of the upload loop or of      *)
(* downloadAndUploadToS3 step by step.  LedgerSpec is the account balance  *)
(* under generation runs, payments (createPaymentIntent, confirmPayment,   *)
(* the Stripe webhooks), refunds (refundPayment) and the admin's credit    *)
(* requests.  LiveSpec is the lifecycle of one record under weak fairness  *)
(* of its steps.  CancelSpec is the lifecycle under two cancelGeneration   *)
(* requests.  PaymentSpec is one payment intent under repeated deliveries  *)
(* and refund requests.  AuthSpec is the stored refresh tokens of the      *)
(* account under login, verifyEmail, googleSignIn, refreshToken, logout,   *)
(* logoutAll, changePassword, deleteAccount, resetPassword and the admin's *)
(* toggleUserStatus and updateUser.                                        *)
(***************************************************************************)
EXTENDS Integers, Sequences, FiniteSets, TLC

(* ---------------------------- bounds ----------------------------------- *)
MaxRecords  == 2   \* generation records created in one behaviour
MaxRuns     == 2   \* processGeneration invocations in one behaviour
MaxImages   == 1   \* output references the provider returns in one result
MaxCreates  == 1   \* createGeneration requests in one behaviour of Spec and CancelSpec
MaxCancels  == 1   \* cancelGeneration requests in one behaviour
MaxRepeatedCancels == 2 \* cancelGeneration requests in one behaviour of CancelSpec
MaxRetryOps == 1   \* retryGeneration requests in one behaviour
MaxDeletes  == 1   \* deleteGeneration requests in one behaviour
MaxPurchases == 1   \* payment transactions created in one behaviour
MaxDeliveries == 1 \* confirmPayment / webhook deliveries of a succeeded payment intent
MaxRefunds  == 1   \* refundPayment requests in one behaviour
MaxRepeatedDeliveries == 2 \* deliveries of one succeeded payment intent in PaymentSpec
MaxRepeatedRefunds == 2    \* refundPayment requests in one behaviour of PaymentSpec
MaxClock    == 1   \* seconds the clock advances in one behaviour of AuthSpec
MaxLogins   == 2   \* login requests in one behaviour of AuthSpec
MaxRefreshes == 2  \* refreshToken requests in one behaviour of AuthSpec
MaxConcurrentLogins == 2 \* login / verifyEmail / googleSignIn requests in flight at once
MaxLogouts  == 1   \* logout / logoutAll requests in one behaviour of AuthSpec
MaxPasswordOps == 1 \* changePassword / deleteAccount / resetPassword requests in AuthSpec
MaxAdminCredits == 1 \* adminController addCreditsToUser requests
MaxAdminDeletes == 1 \* adminController deleteGeneration requests
MaxAuthRequests == 2 \* refresh, logout, password and admin status requests in AuthSpec
MaxRefs     == 3   \* output references in a provider result when the upload loop is followed
InitialCredits == 4  \* balance of the account when the behaviour starts

(* ------------------------ program constants ---------------------------- *)
maxRetries  == 3   \* callFalAI default parameter
MaxStoredTokens == 5 \* login / refreshToken: refreshTokens.slice(-5)
MinImages   == 1   \* createGeneration: Math.max(..., 1)
MaxNumImages == 4  \* createGeneration: Math.min(..., 4)

NULL == "null"     \* a null field
SET  == "set"      \* a Date / duration field that holds a value

Gens == 1..MaxRecords
Runs == 1..MaxRuns

(* ------------------------- failure messages ---------------------------- *)
CancelledByUser     == "Cancelled by user"
InsufficientCredits == "Insufficient credits"
NoImagesGenerated   == "No images generated by FAL AI service"
Overloaded          == "AI generation service is temporarily overloaded. Please try again in a few minutes."
Unavailable         == "AI generation service unavailable: upstream"
VersionError        == "VersionError: No matching document found"
DocumentNotFound    == "DocumentNotFoundError: No document found"
NotAFunction        == "imageUrl.startsWith is not a function"
NoImagesProperty    == "Cannot read properties of undefined (reading 'images')"
NoError             == "none"

VARIABLES
  gens,      \* the Generation collection: id -> stored document
  credits,   \* User.credits of the owning account, as stored
  premium,   \* the account holds a paid, unexpired premium subscription
  runs,      \* processGeneration invocations: position and local variables
  cancelReq, \* the cancelGeneration request in flight, if any
  retryReq,  \* the retryGeneration request in flight, if any
  nextGen,   \* next record id to assign
  nextRun,   \* next processGeneration invocation to start
  budget,    \* requests of each kind still allowed by the bounds
  call,      \* a callFalAI / upload loop / downloadAndUploadToS3 call followed step by step
  txns,      \* the Transaction collection: id -> stored document
  pays,      \* processSuccessfulPayment invocations: position and local variables
  refunds,   \* refundPayment requests: position and local variables
  auth,      \* the account's stored refresh tokens, the clock, and the auth requests in flight
  createReq, \* createGeneration requests: position and local variables
  deleteReq, \* the deleteGeneration request in flight, if any
  intentReq, \* createPaymentIntent requests: position and local variables
  adminReq   \* the adminController.addCreditsToUser request in flight, if any

vars == <<gens, credits, premium, runs, cancelReq, retryReq, nextGen, nextRun, budget,
          call, txns, pays, refunds, auth, createReq, deleteReq, intentReq, adminReq>>

(* ------------------------- Generation documents ------------------------ *)
Statuses == {"pending", "processing", "completed", "failed"}

\* A document that is not in the collection (never created, or deleted).
NoRecord ==
  [exists |-> FALSE, creditsUsed |-> 0, num_images |-> 0,
   originalImageUrl |-> FALSE,
   status |-> NULL, generatedImageUrls |-> <<>>, failureReason |-> NULL,
   processingStartedAt |-> NULL, completedAt |-> NULL,
   processingTimeMs |-> NULL, v |-> 0]

\* No in-memory document (findById returned null, or the variable is dead).
NoDoc ==
  [status |-> NULL, generatedImageUrls |-> <<>>, failureReason |-> NULL,
   processingStartedAt |-> NULL, completedAt |-> NULL,
   processingTimeMs |-> NULL, v |-> 0, modified |-> {}]

\* Generation.findById / findOne: an in-memory copy of the stored document.
findById(g) ==
  IF ~gens[g].exists THEN NoDoc
  ELSE [status |-> gens[g].status,
        generatedImageUrls |-> gens[g].generatedImageUrls,
        failureReason |-> gens[g].failureReason,
        processingStartedAt |-> gens[g].processingStartedAt,
        completedAt |-> gens[g].completedAt,
        processingTimeMs |-> gens[g].processingTimeMs,
        v |-> gens[g].v, modified |-> {}]

\* doc.path = val: the path becomes modified when the value differs.
Assign(d, path, val) ==
  [d EXCEPT ![path] = val,
            !.modified = IF val # d[path] THEN @ \cup {path} ELSE @]

\* doc.path = new Date() / Date.now() - start: always a new value.
AssignNow(d, path) ==
  [d EXCEPT ![path] = SET, !.modified = @ \cup {path}]

\* generationSchema.methods.startProcessing, up to its save.
startProcessing(d) ==
  AssignNow(Assign(d, "status", "processing"), "processingStartedAt")

\* generationSchema.methods.complete, up to its save.
complete(d, imageUrls) ==
  LET d1 == Assign(d, "status", "completed")
      d2 == AssignNow(d1, "completedAt")
      d3 == Assign(d2, "generatedImageUrls", imageUrls)
  IN IF d3.processingStartedAt # NULL THEN AssignNow(d3, "processingTimeMs") ELSE d3

\* generationSchema.methods.fail, up to its save.
fail(d, reason) ==
  LET d1 == Assign(d, "status", "failed")
      d2 == Assign(d1, "failureReason", reason)
      d3 == AssignNow(d2, "completedAt")
  IN IF d3.processingStartedAt # NULL THEN AssignNow(d3, "processingTimeMs") ELSE d3

\* generationSchema.pre('save'): fills processingTimeMs of a newly completed document.
preSave(d) ==
  IF /\ "status" \in d.modified /\ d.status = "completed"
     /\ d.processingStartedAt # NULL /\ d.processingTimeMs = NULL
  THEN AssignNow(d, "processingTimeMs") ELSE d

\* save() of a document whose array path was reassigned carries the version key:
\* the update matches only the stored __v and increments it.
versioned(d) == "generatedImageUrls" \in d.modified

\* The error save() raises for document d of record g, or NoError.
saveError(g, d) ==
  IF versioned(d) /\ (~gens[g].exists \/ gens[g].v # d.v) THEN VersionError
  ELSE IF ~gens[g].exists THEN DocumentNotFound
  ELSE NoError

\* The stored document after a successful save(): only modified paths are written.
saved(g, d) ==
  LET w(path) == IF path \in d.modified THEN d[path] ELSE gens[g][path]
  IN [gens[g] EXCEPT
        !.status = w("status"),
        !.generatedImageUrls = w("generatedImageUrls"),
        !.failureReason = w("failureReason"),
        !.processingStartedAt = w("processingStartedAt"),
        !.completedAt = w("completedAt"),
        !.processingTimeMs = w("processingTimeMs"),
        !.v = IF versioned(d) THEN @ + 1 ELSE @]

\* The in-memory document after a successful save().
afterSave(d) ==
  [d EXCEPT !.modified = {}, !.v = IF versioned(d) THEN @ + 1 ELSE @]

(* ----------------------------- callFalAI ------------------------------- *)
\* String.prototype.includes
includes(s, needle) ==
  \E i \in 1..(Len(s) - Len(needle) + 1) : SubSeq(s, i, i + Len(needle) - 1) = needle

\* What one fal.subscribe attempt does: resolves with data ("ok"), resolves
\* with a result that has no data, or throws with a message.
ProviderOutcomes == {"ok", "no data", "429 Too Many Requests", "upstream"}

\* fal.subscribe resolved: callFalAI returns result.data.
resolved(outcome) == outcome \in {"ok", "no data"}

\* The messages a provider failure carries when callFalAI is followed step by
\* step; "" is an error without a message.
FalMessages ==
  {"429 Too Many Requests", "Too many requests", "rate limit exceeded",
   "Rate Limit Exceeded", "upstream", ""}

\* error.message includes '429', 'Too many requests' or 'rate limit'
isRateLimitError(message) ==
  \/ includes(message, "429")
  \/ includes(message, "Too many requests")
  \/ includes(message, "rate limit")

\* 'AI generation service unavailable: ' + (error.message || 'Unknown error')
unavailable(message) ==
  "AI generation service unavailable: " \o (IF message = "" THEN "Unknown error" ELSE message)

RECURSIVE callFalAIFrom(_, _)
\* The while loop of callFalAI from a given attempt; script[k+1] is what the
\* provider does on attempt k.  last is the provider failure that ended the call.
callFalAIFrom(script, attempt) ==
  IF attempt > maxRetries THEN [error |-> "undefined", calls |-> attempt, last |-> NULL]
  ELSE LET outcome == script[attempt + 1] IN
    IF resolved(outcome) THEN [error |-> NoError, calls |-> attempt + 1, last |-> NULL]
    ELSE IF isRateLimitError(outcome) /\ attempt < maxRetries
      THEN callFalAIFrom(script, attempt + 1)
    ELSE IF isRateLimitError(outcome)
      THEN [error |-> Overloaded, calls |-> attempt + 1, last |-> outcome]
    ELSE [error |-> unavailable(outcome), calls |-> attempt + 1, last |-> outcome]

callFalAI(script) == callFalAIFrom(script, 0)

(* ------------------------ downloadAndUploadToS3 ------------------------ *)
\* Output references: a remote URL of the provider, or a local file path.
RefSchemes == {"https", "file"}
\* What 'img.url || img' yields for one entry of result.images: a reference, or
\* the entry itself when it is an object without url.
ImageKinds == RefSchemes \cup {"object"}
Ref(scheme, n) == [scheme |-> scheme, n |-> n]
NoRef == Ref(NULL, 0)
\* The TypeError that leaves downloadAndUploadToS3 when imageUrl is not a string.
Raised == Ref("TypeError", 0)

\* What the fetch and the store do for one reference.
StoreOutcomes == {"stored", "fetchFails", "storeFails"}

\* The value downloadAndUploadToS3 returns, or Raised when imageUrl.startsWith
\* throws in the try block and again in the catch block.
downloadAndUploadToS3(imageUrl, outcome) ==
  IF imageUrl = NoRef THEN NoRef
  ELSE IF imageUrl.scheme = "object" THEN Raised
  ELSE IF imageUrl.scheme = "file" THEN NoRef
  ELSE IF outcome = "stored" THEN Ref("s3", imageUrl.n)
  ELSE imageUrl

\* The image entries one provider result can hold.
ProviderResults ==
  UNION {[1..n -> ImageKinds] : n \in 0..MaxImages}

falImageUrls(result) == [i \in 1..Len(result) |-> Ref(result[i], i)]

(* ------------------ helper calls followed step by step ------------------ *)
\* No helper call is being followed.
NoCall == [fn |-> NULL]

\* Math.random() * 1000, in whole milliseconds
Jitters == {0, 500, 999}

RECURSIVE Pow2(_)
Pow2(k) == IF k = 0 THEN 1 ELSE 2 * Pow2(k - 1)

\* backoffDelay as it would be if the delay grew by one second per attempt.
backoffDelay_linear(attempt, random) == (attempt + 1) * 1000 + random

\* Math.pow(2, attempt) * 1000 + Math.random() * 1000
backoffDelay(attempt, random) == Pow2(attempt) * 1000 + random

FalOutcomes == {"ok"} \cup FalMessages
FalScripts == [1..(maxRetries + 1) -> FalOutcomes]

\* callFalAI was called: attempt = 0 and the first fal.subscribe is in flight.
\* calls counts the fal.subscribe calls made, waits lists the sleeps taken.
callFalAI_called(script) ==
  [fn |-> "callFalAI", pc |-> "subscribe", script |-> script, attempt |-> 0,
   calls |-> 0, waits |-> <<>>, failure |-> NULL, error |-> NoError]

\* callFalAI_subscribe as it would be if every provider failure were retried.
callFalAI_subscribe_retriesEveryFailure(random) ==
  LET outcome == call.script[call.attempt + 1] IN
  /\ call.fn = "callFalAI"
  /\ call.pc = "subscribe"
  /\ call' =
       IF outcome = "ok"
       THEN [call EXCEPT !.pc = "returned", !.calls = @ + 1]
       ELSE IF call.attempt < maxRetries
       THEN [call EXCEPT !.pc = "sleep", !.calls = @ + 1, !.failure = outcome,
                         !.waits = Append(@, backoffDelay(call.attempt, random))]
       ELSE IF isRateLimitError(outcome)
       THEN [call EXCEPT !.pc = "threw", !.calls = @ + 1, !.failure = outcome,
                         !.error = Overloaded]
       ELSE [call EXCEPT !.pc = "threw", !.calls = @ + 1, !.failure = outcome,
                         !.error = unavailable(outcome)]
  /\ UNCHANGED <<gens, credits, premium, runs, cancelReq, retryReq, nextGen, nextRun,
                 budget, txns, pays, refunds, auth, createReq, deleteReq, intentReq, adminReq>>

\* fal.subscribe resolves (return result.data) or throws (the catch block:
\* sleep and retry, or throw the terminal error).
callFalAI_subscribe(random) ==
  LET outcome == call.script[call.attempt + 1] IN
  /\ call.fn = "callFalAI"
  /\ call.pc = "subscribe"
  /\ call' =
       IF outcome = "ok"
       THEN [call EXCEPT !.pc = "returned", !.calls = @ + 1]
       ELSE IF isRateLimitError(outcome) /\ call.attempt < maxRetries
       THEN [call EXCEPT !.pc = "sleep", !.calls = @ + 1, !.failure = outcome,
                         !.waits = Append(@, backoffDelay(call.attempt, random))]
       ELSE IF isRateLimitError(outcome)
       THEN [call EXCEPT !.pc = "threw", !.calls = @ + 1, !.failure = outcome,
                         !.error = Overloaded]
       ELSE [call EXCEPT !.pc = "threw", !.calls = @ + 1, !.failure = outcome,
                         !.error = unavailable(outcome)]
  /\ UNCHANGED <<gens, credits, premium, runs, cancelReq, retryReq, nextGen, nextRun,
                 budget, txns, pays, refunds, auth, createReq, deleteReq, intentReq, adminReq>>

\* sleep(backoffDelay) resolves; attempt++; continue, and the while test.
callFalAI_sleep ==
  /\ call.fn = "callFalAI"
  /\ call.pc = "sleep"
  /\ call' = [call EXCEPT !.attempt = @ + 1,
                          !.pc = IF call.attempt + 1 <= maxRetries THEN "subscribe"
                                 ELSE "returned"]
  /\ UNCHANGED <<gens, credits, premium, runs, cancelReq, retryReq, nextGen, nextRun,
                 budget, txns, pays, refunds, auth, createReq, deleteReq, intentReq, adminReq>>

\* The provider results the upload loop is followed on.
LoopResults == UNION {[1..n -> ImageKinds] : n \in 1..MaxRefs}

\* The upload loop of processGeneration is entered with i = 0.
uploadLoop_entered(result, outcomes) ==
  [fn |-> "uploadLoop", pc |-> "loop", falImageUrls |-> falImageUrls(result),
   outcomes |-> outcomes, i |-> 0, generatedImageUrls |-> <<>>]

\* One iteration: downloadAndUploadToS3 resolves, a truthy result is pushed,
\* i++; or it rejects and the error leaves the loop.
uploadLoop_iteration ==
  LET i == call.i + 1
      s3Url == downloadAndUploadToS3(call.falImageUrls[i], call.outcomes[i])
  IN /\ call.fn = "uploadLoop"
     /\ call.pc = "loop"
     /\ call' =
          IF s3Url = Raised THEN [call EXCEPT !.i = i, !.pc = "threw"]
          ELSE [call EXCEPT
                  !.generatedImageUrls = IF s3Url # NoRef THEN Append(@, s3Url) ELSE @,
                  !.i = i,
                  !.pc = IF i < Len(call.falImageUrls) THEN "loop" ELSE "done"]
     /\ UNCHANGED <<gens, credits, premium, runs, cancelReq, retryReq, nextGen, nextRun,
                    budget, txns, pays, refunds, auth, createReq, deleteReq, intentReq, adminReq>>

\* The arguments downloadAndUploadToS3 is followed on: a remote reference, a
\* local one, a value that is not a string, and none.
DownloadRefs == {Ref(scheme, n) : scheme \in ImageKinds, n \in 1..MaxRefs} \cup {NoRef}

\* downloadAndUploadToS3 was called.  fetched / uploaded: axios.get / uploadImage
\* was invoked; raised: an error left the function.
downloadAndUploadToS3_called(imageUrl, outcome) ==
  [fn |-> "downloadAndUploadToS3", pc |-> "entry", imageUrl |-> imageUrl,
   outcome |-> outcome, fetched |-> FALSE, uploaded |-> FALSE, raised |-> FALSE,
   result |-> NoRef]

\* The catch block as it would be if it logged the error and threw it on.
downloadAndUploadToS3_catch_rethrows(c) ==
  [c EXCEPT !.pc = "threw", !.raised = TRUE]

\* The catch block of downloadAndUploadToS3: imageUrl.startsWith throws again
\* when imageUrl is not a string, and that error leaves the function.
downloadAndUploadToS3_catch(c) ==
  IF c.imageUrl.scheme = "object"
  THEN [c EXCEPT !.pc = "threw", !.raised = TRUE]
  ELSE IF c.imageUrl.scheme = "file"
  THEN [c EXCEPT !.pc = "returned", !.result = NoRef]
  ELSE [c EXCEPT !.pc = "returned", !.result = c.imageUrl]

\* The falsy test, the file:// test (which throws into the catch block when
\* imageUrl has no startsWith), and the start of axios.get.
downloadAndUploadToS3_entry ==
  /\ call.fn = "downloadAndUploadToS3"
  /\ call.pc = "entry"
  /\ call' = IF call.imageUrl = NoRef THEN [call EXCEPT !.pc = "returned", !.result = NoRef]
             ELSE IF call.imageUrl.scheme = "object"
               THEN downloadAndUploadToS3_catch(call)
             ELSE IF call.imageUrl.scheme = "file"
               THEN [call EXCEPT !.pc = "returned", !.result = NoRef]
             ELSE [call EXCEPT !.pc = "get", !.fetched = TRUE]
  /\ UNCHANGED <<gens, credits, premium, runs, cancelReq, retryReq, nextGen, nextRun,
                 budget, txns, pays, refunds, auth, createReq, deleteReq, intentReq, adminReq>>

\* axios.get resolves (uploadImage is started) or throws (the catch block).
downloadAndUploadToS3_get ==
  /\ call.fn = "downloadAndUploadToS3"
  /\ call.pc = "get"
  /\ call' = IF call.outcome = "fetchFails" THEN downloadAndUploadToS3_catch(call)
             ELSE [call EXCEPT !.pc = "uploadImage", !.uploaded = TRUE]
  /\ UNCHANGED <<gens, credits, premium, runs, cancelReq, retryReq, nextGen, nextRun,
                 budget, txns, pays, refunds, auth, createReq, deleteReq, intentReq, adminReq>>

\* uploadImage resolves (return s3Url) or throws (the catch block).
downloadAndUploadToS3_uploadImage ==
  /\ call.fn = "downloadAndUploadToS3"
  /\ call.pc = "uploadImage"
  /\ call' = IF call.outcome = "storeFails" THEN downloadAndUploadToS3_catch(call)
             ELSE [call EXCEPT !.pc = "returned", !.result = Ref("s3", call.imageUrl.n)]
  /\ UNCHANGED <<gens, credits, premium, runs, cancelReq, retryReq, nextGen, nextRun,
                 budget, txns, pays, refunds, auth, createReq, deleteReq, intentReq, adminReq>>

(* ------------------------------ accounts ------------------------------- *)
\* credits: {type: Number, min: [0, 'Credits cannot be negative']}
MinCredits == 0

\* The validator of credits, which save() runs when the balance was modified
\* on the document; a balance it refuses rejects the save.
creditsValid(value) == value >= MinCredits

\* user.isPremiumActive as processGeneration and the handlers read it: userSchema
\* declares no such path and no such virtual, so the read yields undefined.
isPremiumActive == FALSE

(* --------------------- processGeneration invocations ------------------- *)
\* attempt is callFalAI's attempt; urls is falImageUrls, i the index of the
\* image whose downloadAndUploadToS3 call is in flight, imgs the
\* generatedImageUrls collected so far, uploads the downloadAndUploadToS3
\* calls made.
IdleRun ==
  [pc |-> "idle", gid |-> 0, creditsUsed |-> 0, doc |-> NoDoc,
   err |-> NoError, last |-> NULL, ucred |-> 0, from |-> NULL,
   deducted |-> FALSE, outcome |-> NULL, uploads |-> 0,
   attempt |-> 0, urls |-> <<>>, i |-> 0, imgs |-> <<>>]

\* processGeneration(generationId) was called and its findById is in flight.
started(g) == [IdleRun EXCEPT !.pc = "findById", !.gid = g]

\* The invocation returns: its local variables are dead.  outcome records how
\* it ended: "noop" (the guard returned), "completed" (the try block ran to its
\* end), "failed" (the catch block saved fail()), "logged" (the catch block
\* found no record, or its save threw).
finished(run, outcome) ==
  [run EXCEPT !.pc = "done", !.doc = NoDoc, !.ucred = 0, !.creditsUsed = 0,
              !.err = NoError, !.last = NULL, !.uploads = 0,
              !.attempt = 0, !.urls = <<>>, !.i = 0, !.imgs = <<>>,
              !.from = IF run.deducted THEN @ ELSE NULL, !.outcome = outcome]

\* An error was thrown inside the try block: the catch block starts its findById.
thrown(run, message) ==
  [run EXCEPT !.pc = "catch", !.err = message, !.last = NULL, !.doc = NoDoc,
              !.ucred = 0, !.creditsUsed = 0, !.from = NULL,
              !.attempt = 0, !.urls = <<>>, !.i = 0, !.imgs = <<>>]

\* Positions at which an invocation has passed the status guard and has not returned.
ActivePcs ==
  {"startProcessing", "callFalAI", "sleep", "get", "uploadImage", "complete",
   "findUser", "deductCredits", "catch", "fail"}

(* ---------------------------- createGeneration ------------------------- *)
\* parameters.imageCount as the client sends it: nothing, something that is
\* not a number, or a whole number.
ImageCountInputs ==
  {[t |-> "absent"], [t |-> "nan"], [t |-> "num", n |-> -3], [t |-> "num", n |-> 0],
   [t |-> "num", n |-> 1], [t |-> "num", n |-> 2], [t |-> "num", n |-> 4],
   [t |-> "num", n |-> 7]}

\* inputImageUrl as the client sends it: nothing, a remote URL, a local path.
InputImages == {NoRef, Ref("https", 0), Ref("file", 0)}

\* imageCount: Joi.number().integer().min(1).max(4).default(1)
SchemaMinImages == 1
SchemaMaxImages == 4
SchemaDefaultImages == 1

\* validate(generationBodySchema) on the body of POST /create: a missing
\* imageCount becomes the default, a count that is not a number or lies
\* outside min..max is an error (the route answers 400), and any other count
\* is passed on to the handler as req.body.parameters.imageCount.
generationBodySchema(input) ==
  IF input.t = "absent"
    THEN [error |-> FALSE, imageCount |-> [t |-> "num", n |-> SchemaDefaultImages]]
  ELSE IF input.t = "nan" THEN [error |-> TRUE, imageCount |-> input]
  ELSE IF input.n < SchemaMinImages \/ input.n > SchemaMaxImages
    THEN [error |-> TRUE, imageCount |-> input]
  ELSE [error |-> FALSE, imageCount |-> input]

\* parseInt(imageCount) || 1
parseIntOr1(imageCount) ==
  IF imageCount.t # "num" THEN 1 ELSE IF imageCount.n = 0 THEN 1 ELSE imageCount.n

Min(a, b) == IF a < b THEN a ELSE b
Max(a, b) == IF a > b THEN a ELSE b

\* numImagesOf as it would be if every request were for a single image.
numImagesOf_singleImage(imageCount) == Min(Max(1, MinImages), MaxNumImages)

\* Math.min(Math.max(parseInt(imageCount) || 1, 1), 4)
numImagesOf(imageCount) == Min(Max(parseIntOr1(imageCount), MinImages), MaxNumImages)

\* createGeneration requests, named in the order they arrive.
CreateReqs == 1..MaxRecords

\* A createGeneration request that has not arrived, and its local variables:
\* user.credits of req.user (the copy authenticateToken loaded), numImages, the
\* processGeneration invocation it will start, whether s3InputImageUrl is set,
\* and the HTTP status of the response.
NoCreate ==
  [pc |-> "idle", credits |-> 0, numImages |-> 0, run |-> 0,
   originalImageUrl |-> FALSE, res |-> NULL]

\* The request was answered with the given HTTP status.
created(status) == [NoCreate EXCEPT !.pc = "done", !.res = status]

\* authenticateToken: User.findById resolves and req.user is that copy.
createGeneration_authenticateToken(c) ==
  /\ createReq[c].pc = "idle"
  /\ \A b \in CreateReqs : b < c => createReq[b].pc # "idle"
  /\ budget.create > 0
  /\ createReq' = [createReq EXCEPT ![c] =
       [NoCreate EXCEPT !.pc = "handler", !.credits = credits]]
  /\ budget' = [budget EXCEPT !.create = @ - 1]
  /\ UNCHANGED <<gens, credits, premium, runs, cancelReq, retryReq, nextGen, nextRun,
                 call, txns, pays, refunds, auth, deleteReq, intentReq, adminReq>>

\* validate(generationBodySchema) answers 400 for a body it rejects; otherwise
\* the handler computes numImages from the validated body and tests the
\* credits of req.user (403); with a remote inputImageUrl downloadAndUploadToS3
\* starts axios.get, with a local one it returns null, and otherwise
\* Generation.create is started.
createGeneration(c, input, inputImageUrl) ==
  LET body == generationBodySchema(input)
      user == [credits |-> createReq[c].credits]
      numImages == numImagesOf(body.imageCount)
      creditsRequired == numImages
      refused == ~isPremiumActive /\ user.credits < creditsRequired
      answer == IF body.error THEN "400" ELSE IF refused THEN "403" ELSE NULL
  IN /\ createReq[c].pc = "handler"
     /\ nextRun <= MaxRuns
     /\ createReq' = [createReq EXCEPT ![c] =
          IF answer # NULL THEN created(answer)
          ELSE [NoCreate EXCEPT
                  !.pc = IF inputImageUrl.scheme = "https" THEN "get" ELSE "create",
                  !.numImages = numImages, !.run = nextRun]]
     /\ nextRun' = IF answer # NULL THEN nextRun ELSE nextRun + 1
     /\ UNCHANGED <<gens, credits, premium, runs, cancelReq, retryReq, nextGen, budget,
                    call, txns, pays, refunds, auth, deleteReq, intentReq, adminReq>>

\* downloadAndUploadToS3 of the input image: axios.get resolves (uploadImage is
\* started) or throws (the catch block returns the original URL).
createGeneration_get(c, fetched) ==
  /\ createReq[c].pc = "get"
  /\ createReq' = [createReq EXCEPT ![c] =
       IF fetched THEN [@ EXCEPT !.pc = "uploadImage"]
       ELSE [@ EXCEPT !.pc = "create", !.originalImageUrl = TRUE]]
  /\ UNCHANGED <<gens, credits, premium, runs, cancelReq, retryReq, nextGen, nextRun,
                 budget, call, txns, pays, refunds, auth, deleteReq, intentReq, adminReq>>

\* uploadImage resolves (the stored URL) or throws (the original URL): either
\* is the originalImageUrl of the record; Generation.create is started.
createGeneration_uploadImage(c) ==
  /\ createReq[c].pc = "uploadImage"
  /\ createReq' = [createReq EXCEPT ![c] = [@ EXCEPT !.pc = "create", !.originalImageUrl = TRUE]]
  /\ UNCHANGED <<gens, credits, premium, runs, cancelReq, retryReq, nextGen, nextRun,
                 budget, call, txns, pays, refunds, auth, deleteReq, intentReq, adminReq>>

\* createGeneration_create as it would be if the credits were taken when the
\* record is created.
createGeneration_create_deductsAtCreation(c) ==
  /\ createReq[c].pc = "create"
  /\ gens' = [gens EXCEPT ![nextGen] =
                [NoRecord EXCEPT !.exists = TRUE, !.status = "pending",
                                 !.creditsUsed = createReq[c].numImages,
                                 !.num_images = createReq[c].numImages,
                                 !.originalImageUrl = createReq[c].originalImageUrl]]
  /\ runs' = [runs EXCEPT ![createReq[c].run] = started(nextGen)]
  /\ nextGen' = nextGen + 1
  /\ createReq' = [createReq EXCEPT ![c] = created("201")]
  /\ credits' = credits - createReq[c].numImages
  /\ UNCHANGED <<premium, cancelReq, retryReq, nextRun, budget,
                 call, txns, pays, refunds, auth, deleteReq, intentReq, adminReq>>

\* Generation.create resolves: the record is stored as pending,
\* processGeneration is called, and the request is answered 201.
createGeneration_create(c) ==
  /\ createReq[c].pc = "create"
  /\ gens' = [gens EXCEPT ![nextGen] =
                [NoRecord EXCEPT !.exists = TRUE, !.status = "pending",
                                 !.creditsUsed = createReq[c].numImages,
                                 !.num_images = createReq[c].numImages,
                                 !.originalImageUrl = createReq[c].originalImageUrl]]
  /\ runs' = [runs EXCEPT ![createReq[c].run] = started(nextGen)]
  /\ nextGen' = nextGen + 1
  /\ createReq' = [createReq EXCEPT ![c] = created("201")]
  /\ UNCHANGED <<credits, premium, cancelReq, retryReq, nextRun, budget,
                 call, txns, pays, refunds, auth, deleteReq, intentReq, adminReq>>

(* ---------------------------- processGeneration ------------------------ *)
\* processGeneration_findById as it would be if the guard tested only that the record exists.
processGeneration_findById_noStatusGuard(r) ==
  LET g == runs[r].gid
      generation == findById(g)
  IN /\ runs[r].pc = "findById"
     /\ runs' = [runs EXCEPT ![r] =
          IF ~gens[g].exists
          THEN finished(@, "noop")
          ELSE [@ EXCEPT !.pc = "startProcessing",
                         !.creditsUsed = gens[g].creditsUsed,
                         !.doc = startProcessing(generation)]]
     /\ UNCHANGED <<gens, credits, premium, cancelReq, retryReq, nextGen, nextRun, budget, call, txns, pays, refunds, auth, createReq, deleteReq, intentReq, adminReq>>

\* findById resolves; the guard; startProcessing() assigns and starts its save.
processGeneration_findById(r) ==
  LET g == runs[r].gid
      generation == findById(g)
  IN /\ runs[r].pc = "findById"
     /\ runs' = [runs EXCEPT ![r] =
          IF ~gens[g].exists \/ generation.status # "pending"
          THEN finished(@, "noop")
          ELSE [@ EXCEPT !.pc = "startProcessing",
                         !.creditsUsed = gens[g].creditsUsed,
                         !.doc = startProcessing(generation)]]
     /\ UNCHANGED <<gens, credits, premium, cancelReq, retryReq, nextGen, nextRun, budget, call, txns, pays, refunds, auth, createReq, deleteReq, intentReq, adminReq>>

\* The save of startProcessing() resolves; callFalAI is called.
processGeneration_startProcessing(r) ==
  LET g == runs[r].gid
      d == preSave(runs[r].doc)
      e == saveError(g, d)
  IN /\ runs[r].pc = "startProcessing"
     /\ IF e # NoError
        THEN /\ runs' = [runs EXCEPT ![r] = thrown(@, e)]
             /\ UNCHANGED gens
        ELSE /\ gens' = [gens EXCEPT ![g] = saved(g, d)]
             /\ runs' = [runs EXCEPT ![r] = [@ EXCEPT !.pc = "callFalAI", !.doc = afterSave(d)]]
     /\ UNCHANGED <<credits, premium, cancelReq, retryReq, nextGen, nextRun, budget, call, txns, pays, refunds, auth, createReq, deleteReq, intentReq, adminReq>>

\* loopEnded as it would be if the credits were deducted before complete() is saved.
loopEnded_deductsFirst(run) ==
  [run EXCEPT !.pc = "findUser", !.doc = complete(run.doc, run.imgs),
              !.i = 0, !.urls = <<>>, !.imgs = <<>>]

\* The upload loop has ended: complete(generatedImageUrls) assigns and starts its save.
loopEnded(run) ==
  [run EXCEPT !.pc = "complete", !.doc = complete(run.doc, run.imgs),
              !.i = 0, !.urls = <<>>, !.imgs = <<>>]

RECURSIVE uploadLoop(_, _)
\* The upload loop from image i on, up to the next await that leaves the
\* process: a local path returns null at once and is skipped, a value that is
\* not a string throws, a remote reference starts axios.get.
uploadLoop(run, i) ==
  IF i > Len(run.urls) THEN loopEnded(run)
  ELSE IF run.urls[i].scheme = "object"
    THEN [thrown(run, NotAFunction) EXCEPT !.uploads = run.uploads + 1]
  ELSE IF run.urls[i].scheme = "file"
    THEN uploadLoop([run EXCEPT !.uploads = @ + 1], i + 1)
  ELSE [run EXCEPT !.pc = "get", !.i = i, !.uploads = @ + 1]

\* callFalAI: fal.subscribe resolves or throws.  Resolved: result.data is
\* returned, the image references are extracted ('No images generated' when
\* there is none, a TypeError when there is no data) and the upload loop is
\* entered.  Thrown: a rate-limit failure with retries left starts the backoff
\* sleep; otherwise the terminal error is thrown into the catch block.
processGeneration_callFalAI(r, outcome, result) ==
  LET falImages == falImageUrls(result)
  IN /\ runs[r].pc = "callFalAI"
     /\ runs' = [runs EXCEPT ![r] =
          IF outcome = "no data" THEN thrown(@, NoImagesProperty)
          ELSE IF outcome = "ok" THEN
            IF Len(falImages) = 0 THEN thrown(@, NoImagesGenerated)
            ELSE uploadLoop([@ EXCEPT !.urls = falImages, !.attempt = 0], 1)
          ELSE IF isRateLimitError(outcome) /\ runs[r].attempt < maxRetries
            THEN [@ EXCEPT !.pc = "sleep"]
          ELSE IF isRateLimitError(outcome)
            THEN [thrown(@, Overloaded) EXCEPT !.last = outcome]
          ELSE [thrown(@, unavailable(outcome)) EXCEPT !.last = outcome]]
     /\ UNCHANGED <<gens, credits, premium, cancelReq, retryReq, nextGen, nextRun, budget,
                    call, txns, pays, refunds, auth, createReq, deleteReq, intentReq, adminReq>>

\* callFalAI: sleep(backoffDelay) resolves; attempt++; the next fal.subscribe is started.
processGeneration_sleep(r) ==
  /\ runs[r].pc = "sleep"
  /\ runs' = [runs EXCEPT ![r] = [@ EXCEPT !.pc = "callFalAI", !.attempt = @ + 1]]
  /\ UNCHANGED <<gens, credits, premium, cancelReq, retryReq, nextGen, nextRun, budget,
                 call, txns, pays, refunds, auth, createReq, deleteReq, intentReq, adminReq>>

\* downloadAndUploadToS3 of image i: axios.get resolves (uploadImage is
\* started) or throws (the original reference is returned and pushed, and the
\* loop goes on).
processGeneration_get(r, fetched) ==
  /\ runs[r].pc = "get"
  /\ runs' = [runs EXCEPT ![r] =
       IF fetched THEN [@ EXCEPT !.pc = "uploadImage"]
       ELSE uploadLoop([@ EXCEPT !.imgs = Append(@, runs[r].urls[runs[r].i])],
                       runs[r].i + 1)]
  /\ UNCHANGED <<gens, credits, premium, cancelReq, retryReq, nextGen, nextRun, budget,
                 call, txns, pays, refunds, auth, createReq, deleteReq, intentReq, adminReq>>

\* downloadAndUploadToS3 of image i: uploadImage resolves (the stored reference
\* is pushed) or throws (the original reference is pushed); the loop goes on.
processGeneration_uploadImage(r, uploaded) ==
  LET imageUrl == runs[r].urls[runs[r].i]
      s3Url == IF uploaded THEN Ref("s3", imageUrl.n) ELSE imageUrl
  IN /\ runs[r].pc = "uploadImage"
     /\ runs' = [runs EXCEPT ![r] =
          uploadLoop([@ EXCEPT !.imgs = Append(@, s3Url)], runs[r].i + 1)]
     /\ UNCHANGED <<gens, credits, premium, cancelReq, retryReq, nextGen, nextRun, budget,
                    call, txns, pays, refunds, auth, createReq, deleteReq, intentReq, adminReq>>

\* The save of complete() resolves or throws; User.findById is started.
processGeneration_complete(r) ==
  LET g == runs[r].gid
      d == preSave(runs[r].doc)
      e == saveError(g, d)
  IN /\ runs[r].pc = "complete"
     /\ IF e # NoError
        THEN /\ runs' = [runs EXCEPT ![r] = thrown(@, e)]
             /\ UNCHANGED gens
        ELSE /\ gens' = [gens EXCEPT ![g] = saved(g, d)]
             /\ runs' = [runs EXCEPT ![r] =
                  [@ EXCEPT !.pc = "findUser", !.doc = NoDoc, !.from = gens[g].status]]
     /\ UNCHANGED <<credits, premium, cancelReq, retryReq, nextGen, nextRun, budget, call, txns, pays, refunds, auth, createReq, deleteReq, intentReq, adminReq>>

\* processGeneration_findUser as it would be if deductCredits did not test the balance.
\* User.findById resolves; the premium test; deductCredits checks, subtracts on
\* the in-memory user and starts its save.
processGeneration_findUser(r) ==
  LET amount == runs[r].creditsUsed
  IN /\ runs[r].pc = "findUser"
     /\ runs' = [runs EXCEPT ![r] =
          IF isPremiumActive THEN finished(@, "completed")
          ELSE IF credits < amount THEN thrown(@, InsufficientCredits)
          ELSE [@ EXCEPT !.pc = "deductCredits", !.ucred = credits - amount]]
     /\ UNCHANGED <<gens, credits, premium, cancelReq, retryReq, nextGen, nextRun, budget, call, txns, pays, refunds, auth, createReq, deleteReq, intentReq, adminReq>>

\* The save of deductCredits resolves: the stored balance becomes the in-memory one.
processGeneration_deductCredits(r) ==
  /\ runs[r].pc = "deductCredits"
  /\ credits' = runs[r].ucred
  /\ runs' = [runs EXCEPT ![r] = finished([@ EXCEPT !.deducted = TRUE], "completed")]
  /\ UNCHANGED <<gens, premium, cancelReq, retryReq, nextGen, nextRun, budget, call, txns, pays, refunds, auth, createReq, deleteReq, intentReq, adminReq>>

\* processGeneration_catch as it would be if the catch block only logged the error.
processGeneration_catch(r) ==
  LET g == runs[r].gid
  IN /\ runs[r].pc = "catch"
     /\ runs' = [runs EXCEPT ![r] =
          IF ~gens[g].exists THEN finished(@, "logged")
          ELSE [@ EXCEPT !.pc = "fail", !.doc = fail(findById(g), runs[r].err)]]
     /\ UNCHANGED <<gens, credits, premium, cancelReq, retryReq, nextGen, nextRun, budget, call, txns, pays, refunds, auth, createReq, deleteReq, intentReq, adminReq>>

\* catch: the save of fail() resolves, or throws into the inner catch.
processGeneration_fail(r) ==
  LET g == runs[r].gid
      d == preSave(runs[r].doc)
  IN /\ runs[r].pc = "fail"
     /\ gens' = IF saveError(g, d) # NoError THEN gens
                ELSE [gens EXCEPT ![g] = saved(g, d)]
     /\ runs' = [runs EXCEPT ![r] =
          finished(@, IF saveError(g, d) # NoError THEN "logged" ELSE "failed")]
     /\ UNCHANGED <<credits, premium, cancelReq, retryReq, nextGen, nextRun, budget, call, txns, pays, refunds, auth, createReq, deleteReq, intentReq, adminReq>>

(* ---------------------------- cancelGeneration ------------------------- *)
\* No request in flight.  credits is user.credits of req.user, the copy
\* authenticateToken loaded; res is the HTTP status of the last response sent.
NoRequest ==
  [pc |-> "idle", gid |-> 0, doc |-> NoDoc, run |-> 0, credits |-> 0, res |-> NULL]

\* The request was answered with the given HTTP status.
answered(status) == [NoRequest EXCEPT !.res = status]

\* Who sends a request: the account that owns the records, or another account.
Owner == "owner"
Callers == {Owner, "other"}

\* Generation.findOne({_id: id, userId: user._id})
findOne(g, caller) == IF caller = Owner THEN findById(g) ELSE NoDoc
found(g, caller) == caller = Owner /\ gens[g].exists

\* findOne resolves; not found (404); the status test (400); otherwise
\* fail('Cancelled by user') assigns and starts its save.
cancelGeneration_findOne(g, caller) ==
  /\ cancelReq.pc = "idle"
  /\ budget.cancel > 0
  /\ cancelReq' =
       IF ~found(g, caller) THEN answered("404")
       ELSE IF gens[g].status \notin {"pending", "processing"} THEN answered("400")
       ELSE [NoRequest EXCEPT !.pc = "fail", !.gid = g,
                              !.doc = fail(findOne(g, caller), CancelledByUser)]
  /\ budget' = [budget EXCEPT !.cancel = @ - 1]
  /\ UNCHANGED <<gens, credits, premium, runs, retryReq, nextGen, nextRun, call, txns, pays, refunds, auth, createReq, deleteReq, intentReq, adminReq>>

\* The save of fail() resolves (200), or throws (500).
cancelGeneration_fail ==
  LET g == cancelReq.gid
      d == preSave(cancelReq.doc)
  IN /\ cancelReq.pc = "fail"
     /\ gens' = IF saveError(g, d) # NoError THEN gens
                ELSE [gens EXCEPT ![g] = saved(g, d)]
     /\ cancelReq' = answered(IF saveError(g, d) # NoError THEN "500" ELSE "200")
     /\ UNCHANGED <<credits, premium, runs, retryReq, nextGen, nextRun, budget, call, txns, pays, refunds, auth, createReq, deleteReq, intentReq, adminReq>>

(* ---------------------------- retryGeneration -------------------------- *)
\* The reset of retryGeneration on the in-memory document.
resetForRetry(d) ==
  LET d1 == Assign(d, "status", "pending")
      d2 == Assign(d1, "processingStartedAt", NULL)
      d3 == Assign(d2, "completedAt", NULL)
      d4 == Assign(d3, "failureReason", NULL)
      d5 == Assign(d4, "processingTimeMs", NULL)
  IN Assign(d5, "generatedImageUrls", <<>>)

\* requireCredits(minimumCredits), the middleware between authenticateToken and
\* the handler of POST /:id/retry: whether req.user may pass.
requireCredits(user, minimumCredits) ==
  isPremiumActive \/ ~(user.credits < minimumCredits)

\* authenticateToken loads req.user; requireCredits(1) answers 403 for a
\* balance below 1; otherwise the handler starts Generation.findOne.
retryGeneration_authenticateToken ==
  LET user == [credits |-> credits]
  IN /\ retryReq.pc = "idle"
     /\ budget.retry > 0
     /\ retryReq' = IF ~requireCredits(user, 1) THEN answered("403")
                    ELSE [NoRequest EXCEPT !.pc = "findOne", !.credits = user.credits]
     /\ budget' = [budget EXCEPT !.retry = @ - 1]
     /\ UNCHANGED <<gens, credits, premium, runs, cancelReq, nextGen, nextRun, call, txns,
                    pays, refunds, auth, createReq, deleteReq, intentReq, adminReq>>

\* retryGeneration_findOne as it would be without the status test.
retryGeneration_findOne_noStatusTest(g, caller) ==
  LET user == [credits |-> retryReq.credits]
      accepted == /\ found(g, caller)
                  /\ ~(~isPremiumActive /\ user.credits < gens[g].creditsUsed)
  IN /\ retryReq.pc = "findOne"
     /\ nextRun <= MaxRuns
     /\ retryReq' =
          IF ~found(g, caller) THEN answered("404")
          ELSE IF ~accepted THEN answered("403")
          ELSE [NoRequest EXCEPT !.pc = "save", !.gid = g, !.run = nextRun,
                                 !.doc = resetForRetry(findOne(g, caller))]
     /\ nextRun' = IF accepted THEN nextRun + 1 ELSE nextRun
     /\ UNCHANGED <<gens, credits, premium, runs, cancelReq, nextGen, budget, call, txns,
                    pays, refunds, auth, createReq, deleteReq, intentReq, adminReq>>

\* findOne resolves; not found (404); the status test (400); the credit test
\* on req.user (403); otherwise the reset is assigned and save is started.
retryGeneration_findOne(g, caller) ==
  LET user == [credits |-> retryReq.credits]
      accepted == /\ found(g, caller)
                  /\ gens[g].status = "failed"
                  /\ ~(~isPremiumActive /\ user.credits < gens[g].creditsUsed)
  IN /\ retryReq.pc = "findOne"
     /\ nextRun <= MaxRuns
     /\ retryReq' =
          IF ~found(g, caller) THEN answered("404")
          ELSE IF gens[g].status # "failed" THEN answered("400")
          ELSE IF ~accepted THEN answered("403")
          ELSE [NoRequest EXCEPT !.pc = "save", !.gid = g, !.run = nextRun,
                                 !.doc = resetForRetry(findOne(g, caller))]
     /\ nextRun' = IF accepted THEN nextRun + 1 ELSE nextRun
     /\ UNCHANGED <<gens, credits, premium, runs, cancelReq, nextGen, budget, call, txns,
                    pays, refunds, auth, createReq, deleteReq, intentReq, adminReq>>

\* The save resolves and processGeneration is called (200), or it throws (500).
retryGeneration_save ==
  LET g == retryReq.gid
      d == preSave(retryReq.doc)
  IN /\ retryReq.pc = "save"
     /\ IF saveError(g, d) # NoError
        THEN UNCHANGED <<gens, runs>>
        ELSE /\ gens' = [gens EXCEPT ![g] = saved(g, d)]
             /\ runs' = [runs EXCEPT ![retryReq.run] = started(g)]
     /\ retryReq' = answered(IF saveError(g, d) # NoError THEN "500" ELSE "200")
     /\ UNCHANGED <<credits, premium, cancelReq, nextGen, nextRun, budget, call, txns, pays, refunds, auth, createReq, deleteReq, intentReq, adminReq>>

(* ---------------------------- deleteGeneration ------------------------- *)
\* No deleteGeneration request in flight.  left is the number of deleteImage
\* calls still to make for the document that was loaded.
NoDelete == [pc |-> "idle", gid |-> 0, left |-> 0, res |-> NULL]

\* The request was answered with the given HTTP status.
deleted(status) == [NoDelete EXCEPT !.res = status]

\* The position after a deleteImage call resolved, or when none is to be made.
deleteNext(g, left) ==
  [NoDelete EXCEPT !.pc = IF left > 0 THEN "deleteImage" ELSE "findByIdAndDelete",
                   !.gid = g, !.left = left]

\* findOne resolves; not found (404); otherwise deleteImage is started for the
\* originalImageUrl and then for each of the generatedImageUrls of the copy.
deleteGeneration_findOne(g, caller) ==
  LET images == (IF gens[g].originalImageUrl THEN 1 ELSE 0)
                  + Len(gens[g].generatedImageUrls)
  IN /\ deleteReq.pc = "idle"
     /\ budget.delete > 0
     /\ deleteReq' = IF ~found(g, caller) THEN deleted("404") ELSE deleteNext(g, images)
     /\ budget' = [budget EXCEPT !.delete = @ - 1]
     /\ UNCHANGED <<gens, credits, premium, runs, cancelReq, retryReq, nextGen, nextRun,
                    call, txns, pays, refunds, auth, createReq, intentReq, adminReq>>

\* A deleteImage call resolves and the next one, or findByIdAndDelete, is
\* started; or it rejects and the catch block answers 500, the record kept.
\* (deleteImage of utils/upload.js catches what deleteFromS3 and
\* deleteFromCloudinary throw and returns false, which is a resolved call.)
deleteGeneration_deleteImage(rejected) ==
  /\ deleteReq.pc = "deleteImage"
  /\ deleteReq' = IF rejected THEN deleted("500")
                 ELSE deleteNext(deleteReq.gid, deleteReq.left - 1)
  /\ UNCHANGED <<gens, credits, premium, runs, cancelReq, retryReq, nextGen, nextRun,
                 budget, call, txns, pays, refunds, auth, createReq, intentReq, adminReq>>

\* Generation.findByIdAndDelete resolves: the record is gone (200); or it
\* rejects and the catch block answers 500, the record kept.
deleteGeneration_findByIdAndDelete(removed) ==
  /\ deleteReq.pc = "findByIdAndDelete"
  /\ gens' = IF removed THEN [gens EXCEPT ![deleteReq.gid] = NoRecord] ELSE gens
  /\ deleteReq' = deleted(IF removed THEN "200" ELSE "500")
  /\ UNCHANGED <<credits, premium, runs, cancelReq, retryReq, nextGen, nextRun,
                 budget, call, txns, pays, refunds, auth, createReq, intentReq, adminReq>>

\* adminController.deleteGeneration: Generation.findByIdAndDelete removes the
\* record of any account (404 when there is none).
admin_deleteGeneration(g) ==
  /\ budget.adminDelete > 0
  /\ gens' = [gens EXCEPT ![g] = NoRecord]
  /\ budget' = [budget EXCEPT !.adminDelete = @ - 1]
  /\ UNCHANGED <<credits, premium, runs, cancelReq, retryReq, nextGen, nextRun,
                 call, txns, pays, refunds, auth, createReq, deleteReq, intentReq, adminReq>>

(* ------------------------------- payments ----------------------------- *)
\* The transaction documents of the account: the signup_bonus of its
\* registration, its purchases and the bonuses an administrator gave it.
MaxTxns == MaxPurchases + MaxAdminCredits + 1
Txns == 1..MaxTxns
Deliveries == 1..MaxRepeatedDeliveries
RefundReqs == 1..MaxRepeatedRefunds

\* CREDIT_PACKAGES, the packages bought here: credits granted and isPremium.
CREDIT_PACKAGES ==
  [small   |-> [credits |-> 10, isPremium |-> FALSE],
   premium |-> [credits |-> 0,  isPremium |-> TRUE]]
PackageIds == {"small", "premium"}

\* A transaction that was not created.  stripePaymentIntentId: the document
\* holds the id of its payment intent.  intent and refundedAtStripe are the
\* state of that payment intent at Stripe (created; refunded), kept with the
\* transaction it belongs to.
NoTxn == [exists |-> FALSE, status |-> NULL, type |-> NULL, creditsAdded |-> 0,
          packageId |-> NULL, stripePaymentIntentId |-> FALSE, intent |-> FALSE,
          refundedAtStripe |-> FALSE, processedAt |-> FALSE]

\* register: Transaction.create({type: 'signup_bonus', creditsAdded: 1,
\* status: 'completed'}); processedAt keeps its default, null.
signupTransaction ==
  [NoTxn EXCEPT !.exists = TRUE, !.status = "completed", !.type = "signup_bonus",
                !.creditsAdded = 1]

\* The Transaction collection of a registered account.
Registered == [t \in Txns |-> IF t = 1 THEN signupTransaction ELSE NoTxn]

\* The purchases among the transactions.
PurchaseTypes == {"credit_purchase", "premium_subscription"}
purchases == {t \in Txns : txns[t].exists /\ txns[t].type \in PurchaseTypes}

\* A createPaymentIntent request that has not arrived; res is the HTTP status
\* of its response.
NoIntent == [pc |-> "idle", res |-> NULL]

\* How stripe.paymentIntents.create ends: it resolves, or rejects with a
\* StripeCardError, or with any other error.
StripeErrors == {NoError, "StripeCardError", "StripeAPIError"}

\* createPaymentIntent: Transaction.create resolves with status pending;
\* stripe.paymentIntents.create is started with the transaction id and the
\* package id as metadata.
createPaymentIntent(t, packageId) ==
  LET selectedPackage == CREDIT_PACKAGES[packageId] IN
  /\ intentReq[t].pc = "idle"
  /\ Cardinality(purchases) < MaxPurchases
  /\ ~txns[t].exists
  /\ \A u \in Txns : u < t => txns[u].exists
  /\ txns' = [txns EXCEPT ![t] =
       [NoTxn EXCEPT !.exists = TRUE, !.status = "pending",
                     !.type = IF selectedPackage.isPremium THEN "premium_subscription"
                              ELSE "credit_purchase",
                     !.creditsAdded = selectedPackage.credits, !.packageId = packageId]]
  /\ intentReq' = [intentReq EXCEPT ![t] = [NoIntent EXCEPT !.pc = "paymentIntents"]]
  /\ UNCHANGED <<gens, credits, premium, runs, cancelReq, retryReq, nextGen, nextRun,
                 budget, call, pays, refunds, auth, createReq, deleteReq, adminReq>>

\* stripe.paymentIntents.create resolves (the payment intent exists; the save
\* of stripePaymentIntentId is started) or rejects (400 for a StripeCardError,
\* 500 otherwise; the transaction stays pending without a payment intent).
createPaymentIntent_paymentIntents(t, error) ==
  /\ intentReq[t].pc = "paymentIntents"
  /\ txns' = [txns EXCEPT ![t].intent = (error = NoError)]
  /\ intentReq' = [intentReq EXCEPT ![t] =
       IF error = NoError THEN [NoIntent EXCEPT !.pc = "save"]
       ELSE IF error = "StripeCardError" THEN [NoIntent EXCEPT !.pc = "done", !.res = "400"]
       ELSE [NoIntent EXCEPT !.pc = "done", !.res = "500"]]
  /\ UNCHANGED <<gens, credits, premium, runs, cancelReq, retryReq, nextGen, nextRun,
                 budget, call, pays, refunds, auth, createReq, deleteReq, adminReq>>

\* transaction.save() resolves: the document holds stripePaymentIntentId (201).
createPaymentIntent_save(t) ==
  /\ intentReq[t].pc = "save"
  /\ txns' = [txns EXCEPT ![t].stripePaymentIntentId = TRUE]
  /\ intentReq' = [intentReq EXCEPT ![t] = [NoIntent EXCEPT !.pc = "done", !.res = "201"]]
  /\ UNCHANGED <<gens, credits, premium, runs, cancelReq, retryReq, nextGen, nextRun,
                 budget, call, pays, refunds, auth, createReq, deleteReq, adminReq>>

\* A delivery (a confirmPayment request or a webhook event) that has not
\* arrived, and its local variables.  applied: its addCredits save resolved.
NoDelivery == [pc |-> "idle", tid |-> 0, ucred |-> 0, applied |-> FALSE]

\* confirmPayment, called with the paymentIntentId of a 201 response:
\* stripe.paymentIntents.retrieve resolves and Transaction.findById is started.
confirmPayment_retrieve(h, t) ==
  /\ pays[h].pc = "idle"
  /\ intentReq[t].res = "201"
  /\ pays' = [pays EXCEPT ![h] = [NoDelivery EXCEPT !.pc = "findById", !.tid = t]]
  /\ UNCHANGED <<gens, credits, premium, runs, cancelReq, retryReq, nextGen, nextRun,
                 budget, call, txns, refunds, auth, createReq, deleteReq,
                 intentReq, adminReq>>

\* confirmPayment: Transaction.findById resolves; when the payment intent has
\* succeeded and the transaction is pending, processSuccessfulPayment starts
\* its User.findById; otherwise the request is answered with the status.
confirmPayment_findById(h, succeeded) ==
  /\ pays[h].pc = "findById"
  /\ pays' = [pays EXCEPT ![h] =
       IF succeeded /\ txns[pays[h].tid].status = "pending"
       THEN [@ EXCEPT !.pc = "findUser"]
       ELSE [@ EXCEPT !.pc = "done"]]
  /\ UNCHANGED <<gens, credits, premium, runs, cancelReq, retryReq, nextGen, nextRun,
                 budget, call, txns, refunds, auth, createReq, deleteReq,
                 intentReq, adminReq>>

\* The payment_intent.succeeded webhook: Transaction.findOne by
\* stripePaymentIntentId resolves; a transaction that is found and pending
\* goes to processSuccessfulPayment, which starts its User.findById.
handlePaymentIntentSucceeded(h, t) ==
  /\ pays[h].pc = "idle"
  /\ txns[t].intent
  /\ pays' = [pays EXCEPT ![h] =
       IF txns[t].stripePaymentIntentId /\ txns[t].status = "pending"
       THEN [NoDelivery EXCEPT !.pc = "findUser", !.tid = t]
       ELSE [NoDelivery EXCEPT !.pc = "done", !.tid = t]]
  /\ UNCHANGED <<gens, credits, premium, runs, cancelReq, retryReq, nextGen, nextRun,
                 budget, call, txns, refunds, auth, createReq, deleteReq,
                 intentReq, adminReq>>

\* The payment_intent.payment_failed webhook: Transaction.findOne resolves; for
\* a transaction that is found and pending transaction.fail starts its save.
handlePaymentIntentFailed(h, t) ==
  /\ pays[h].pc = "idle"
  /\ txns[t].intent
  /\ pays' = [pays EXCEPT ![h] =
       IF txns[t].stripePaymentIntentId /\ txns[t].status = "pending"
       THEN [NoDelivery EXCEPT !.pc = "paymentFailed", !.tid = t]
       ELSE [NoDelivery EXCEPT !.pc = "done", !.tid = t]]
  /\ UNCHANGED <<gens, credits, premium, runs, cancelReq, retryReq, nextGen, nextRun,
                 budget, call, txns, refunds, auth, createReq, deleteReq,
                 intentReq, adminReq>>

\* handlePaymentIntentFailed: the save of transaction.fail('Payment failed') resolves.
handlePaymentIntentFailed_fail(h) ==
  /\ pays[h].pc = "paymentFailed"
  /\ txns' = [txns EXCEPT ![pays[h].tid].status = "failed",
                          ![pays[h].tid].processedAt = TRUE]
  /\ pays' = [pays EXCEPT ![h].pc = "done"]
  /\ UNCHANGED <<gens, credits, premium, runs, cancelReq, retryReq, nextGen, nextRun,
                 budget, call, refunds, auth, createReq, deleteReq, intentReq,
                 adminReq>>

\* User.findById resolves.  A premium package calls user.activatePremium, which
\* userSchema does not define: a TypeError, and the catch block starts
\* transaction.fail.  Otherwise addCredits adds on the in-memory user and starts its save.
processSuccessfulPayment_findUser(h) ==
  LET selectedPackage == CREDIT_PACKAGES[txns[pays[h].tid].packageId] IN
  /\ pays[h].pc = "findUser"
  /\ pays' = [pays EXCEPT ![h] =
       IF selectedPackage.isPremium THEN [@ EXCEPT !.pc = "fail"]
       ELSE [@ EXCEPT !.pc = "addCredits", !.ucred = credits + selectedPackage.credits]]
  /\ UNCHANGED <<gens, credits, premium, runs, cancelReq, retryReq, nextGen, nextRun,
                 budget, call, txns, refunds, auth, createReq, deleteReq,
                 intentReq, adminReq>>

\* The save of addCredits resolves and transaction.complete() starts its
\* save, or a balance the schema does not admit rejects the save and the
\* catch block starts transaction.fail.
processSuccessfulPayment_addCredits(h) ==
  /\ pays[h].pc = "addCredits"
  /\ credits' = IF creditsValid(pays[h].ucred) THEN pays[h].ucred ELSE credits
  /\ pays' = [pays EXCEPT ![h] =
       IF creditsValid(pays[h].ucred)
       THEN [@ EXCEPT !.pc = "complete", !.ucred = 0, !.applied = TRUE]
       ELSE [@ EXCEPT !.pc = "fail", !.ucred = 0]]
  /\ UNCHANGED <<gens, premium, runs, cancelReq, retryReq, nextGen, nextRun, budget,
                 call, txns, refunds, auth, createReq, deleteReq, intentReq,
                 adminReq>>

\* The save of transaction.complete() resolves.
processSuccessfulPayment_complete(h) ==
  /\ pays[h].pc = "complete"
  /\ txns' = [txns EXCEPT ![pays[h].tid].status = "completed",
                          ![pays[h].tid].processedAt = TRUE]
  /\ pays' = [pays EXCEPT ![h].pc = "done"]
  /\ UNCHANGED <<gens, credits, premium, runs, cancelReq, retryReq, nextGen, nextRun,
                 budget, call, refunds, auth, createReq, deleteReq, intentReq,
                 adminReq>>

\* catch: the save of transaction.fail('Payment processing failed') resolves
\* and the error is thrown on to the handler.
processSuccessfulPayment_fail(h) ==
  /\ pays[h].pc = "fail"
  /\ txns' = [txns EXCEPT ![pays[h].tid].status = "failed",
                          ![pays[h].tid].processedAt = TRUE]
  /\ pays' = [pays EXCEPT ![h].pc = "done"]
  /\ UNCHANGED <<gens, credits, premium, runs, cancelReq, retryReq, nextGen, nextRun,
                 budget, call, refunds, auth, createReq, deleteReq, intentReq,
                 adminReq>>

(* ----------------------------- refundPayment -------------------------- *)
\* A refund request that has not arrived, and its local variables.
NoRefund == [pc |-> "idle", tid |-> 0, creditsToDeduct |-> 0, res |-> NULL]

\* The refund request was answered with the given HTTP status.
refused(q, t, status) == [NoRefund EXCEPT !.pc = "done", !.tid = t, !.res = status]

\* transaction.processedAt < hoursAgo24: a processedAt of null compares as 0
\* and is less than every date; a date is less when it is more than 24 hours ago.
tooLate(transaction, withinDay) == ~transaction.processedAt \/ ~withinDay

\* Transaction.findOne({status: 'completed'}) resolves; 404 when nothing is
\* found; 400 when processedAt is less than 24 hours ago; otherwise
\* stripe.refunds.create is started.
refundPayment_findOne(q, t, withinDay) ==
  /\ refunds[q].pc = "idle"
  /\ txns[t].exists
  /\ refunds' = [refunds EXCEPT ![q] =
       IF txns[t].status # "completed" THEN refused(q, t, "404")
       ELSE IF tooLate(txns[t], withinDay) THEN refused(q, t, "400")
       ELSE [NoRefund EXCEPT !.pc = "refunds", !.tid = t]]
  /\ UNCHANGED <<gens, credits, premium, runs, cancelReq, retryReq, nextGen, nextRun,
                 budget, call, txns, pays, auth, createReq, deleteReq, intentReq,
                 adminReq>>

\* stripe.refunds.create({payment_intent: transaction.stripePaymentIntentId})
\* resolves (processRefund starts its User.findById) or rejects (500): Stripe
\* refunds a payment intent in full once and rejects a further refund of it,
\* and stripeOk is every other reason it may fail.  A bonus transaction holds
\* no payment intent: what Stripe answers to payment_intent null is stripeOk.
refundPayment_refunds(q, stripeOk) ==
  LET transaction == txns[refunds[q].tid]
      refund == stripeOk /\ ~(transaction.stripePaymentIntentId /\ transaction.refundedAtStripe)
  IN /\ refunds[q].pc = "refunds"
     /\ refunds' = [refunds EXCEPT ![q] =
          IF refund THEN [@ EXCEPT !.pc = "findUser"]
          ELSE [@ EXCEPT !.pc = "done", !.res = "500"]]
     /\ txns' = [txns EXCEPT ![refunds[q].tid].refundedAtStripe =
                    @ \/ (refund /\ transaction.stripePaymentIntentId)]
     /\ UNCHANGED <<gens, credits, premium, runs, cancelReq, retryReq, nextGen, nextRun,
                 budget, call, pays, auth, createReq, deleteReq, intentReq,
                 adminReq>>

\* processRefund: User.findById resolves, creditsToDeduct is computed from the
\* balance just read, and findByIdAndUpdate($inc) is started.
processRefund_findUser(q) ==
  LET transaction == txns[refunds[q].tid]
  IN /\ refunds[q].pc = "findUser"
     /\ refunds' = [refunds EXCEPT ![q] =
          IF transaction.creditsAdded > 0
          THEN [@ EXCEPT !.pc = "inc",
                         !.creditsToDeduct = Min(credits, transaction.creditsAdded)]
          ELSE [@ EXCEPT !.pc = "refund"]]
     /\ UNCHANGED <<gens, credits, premium, runs, cancelReq, retryReq, nextGen, nextRun,
                 budget, call, txns, pays, auth, createReq, deleteReq, intentReq,
                 adminReq>>

\* findByIdAndUpdate({$inc: {credits: -creditsToDeduct}}) resolves;
\* transaction.refund() starts its save.  (The premium branch in between is
\* never taken: a premium_subscription transaction cannot become completed,
\* see processSuccessfulPayment_findUser.)
processRefund_inc(q) ==
  /\ refunds[q].pc = "inc"
  /\ credits' = credits - refunds[q].creditsToDeduct
  /\ refunds' = [refunds EXCEPT ![q].pc = "refund"]
  /\ UNCHANGED <<gens, premium, runs, cancelReq, retryReq, nextGen, nextRun, budget,
                 call, txns, pays, auth, createReq, deleteReq, intentReq, adminReq>>

\* The save of transaction.refund() resolves (200).
processRefund_refund(q) ==
  /\ refunds[q].pc = "refund"
  /\ txns' = [txns EXCEPT ![refunds[q].tid].status = "refunded",
                          ![refunds[q].tid].processedAt = TRUE]
  /\ refunds' = [refunds EXCEPT ![q] = [@ EXCEPT !.pc = "done", !.res = "200"]]
  /\ UNCHANGED <<gens, credits, premium, runs, cancelReq, retryReq, nextGen, nextRun,
                 budget, call, pays, auth, createReq, deleteReq, intentReq,
                 adminReq>>

(* ------------------------- adminController: credits -------------------- *)
\* The amounts an administrator adds: addCreditsSchema admits 1..1000.
AdminAmounts == {5}

\* No addCreditsToUser request in flight.  credits is req.body.credits.
NoAdmin == [pc |-> "idle", ucred |-> 0, credits |-> 0]

\* addCreditsToUser: User.findById resolves; addCredits adds on the in-memory
\* user and starts its save.
admin_addCreditsToUser(amount) ==
  /\ adminReq.pc = "idle"
  /\ budget.adminCredits > 0
  /\ adminReq' = [NoAdmin EXCEPT !.pc = "addCredits", !.ucred = credits + amount,
                                 !.credits = amount]
  /\ budget' = [budget EXCEPT !.adminCredits = @ - 1]
  /\ UNCHANGED <<gens, credits, premium, runs, cancelReq, retryReq, nextGen, nextRun,
                 call, txns, pays, refunds, auth, createReq, deleteReq, intentReq>>

\* addCreditsToUser: the save of addCredits resolves and Transaction.create is
\* started, or a balance the schema does not admit rejects the save: nothing
\* is written and the error leaves the handler (500).
admin_addCreditsToUser_addCredits ==
  /\ adminReq.pc = "addCredits"
  /\ credits' = IF creditsValid(adminReq.ucred) THEN adminReq.ucred ELSE credits
  /\ adminReq' = IF creditsValid(adminReq.ucred)
                 THEN [adminReq EXCEPT !.pc = "create", !.ucred = 0]
                 ELSE NoAdmin
  /\ UNCHANGED <<gens, premium, runs, cancelReq, retryReq, nextGen, nextRun, budget,
                 call, txns, pays, refunds, auth, createReq, deleteReq, intentReq>>

\* addCreditsToUser: Transaction.create({type: 'bonus', creditsAdded: credits,
\* status: 'completed', processedAt: new Date()}) resolves (200).
admin_addCreditsToUser_create(t) ==
  /\ adminReq.pc = "create"
  /\ ~txns[t].exists
  /\ \A u \in Txns : u < t => txns[u].exists
  /\ txns' = [txns EXCEPT ![t] =
       [NoTxn EXCEPT !.exists = TRUE, !.status = "completed", !.type = "bonus",
                     !.creditsAdded = adminReq.credits, !.processedAt = TRUE]]
  /\ adminReq' = NoAdmin
  /\ UNCHANGED <<gens, credits, premium, runs, cancelReq, retryReq, nextGen, nextRun,
                 budget, call, pays, refunds, auth, createReq, deleteReq, intentReq>>

(* --------------------------- refresh tokens --------------------------- *)
\* A refresh token of the account.  jwt.sign(payload, refreshSecret, options)
\* signs the payload {id, email, role} with iat = the current second and
\* exp = iat + refreshExpiresIn: for one account the token is a function of
\* the second in which it is signed.
NoToken == [iat |-> -1]
generateTokens(now) == [iat |-> now]

LoginReqs == 1..MaxConcurrentLogins
RefreshReqs == 1..MaxRefreshes
LogoutReqs == 1..MaxLogouts
PasswordReqs == 1..MaxPasswordOps

\* An auth request that has not arrived, and its local variables: the handler
\* it runs, the token presented, the in-memory refreshTokens, __v and isActive
\* of the user it loaded, whether the array path is modified, the token it
\* generated, the response.
NoSession ==
  [pc |-> "idle", kind |-> NULL, token |-> NoToken, refreshTokens |-> <<>>, v |-> 0,
   isActive |-> FALSE, reassigned |-> FALSE, newRefreshToken |-> NoToken, res |-> NULL]

\* The account before its first login: no stored token, no googleId, clock at
\* second 0.
\* issued is the set of refresh tokens that were returned to a client.
NoAuth ==
  [refreshTokens |-> <<>>, v |-> 0, now |-> 0, isActive |-> TRUE, googleId |-> FALSE,
   issued |-> {},
   login |-> [s \in LoginReqs |-> NoSession],
   refresh |-> [s \in RefreshReqs |-> NoSession],
   logout |-> [s \in LogoutReqs |-> NoSession],
   password |-> [s \in PasswordReqs |-> NoSession],
   logins |-> MaxLogins, requests |-> MaxAuthRequests]

\* refreshTokens.some(tokenObj => tokenObj.token === refreshToken)
some(refreshTokens, token) == \E i \in 1..Len(refreshTokens) : refreshTokens[i] = token

\* refreshTokens.filter(tokenObj => tokenObj.token !== refreshToken)
filter(refreshTokens, token) == SelectSeq(refreshTokens, LAMBDA t : t # token)

\* if (refreshTokens.length > 5) refreshTokens = refreshTokens.slice(-5)
keepLast(refreshTokens) ==
  IF Len(refreshTokens) > MaxStoredTokens
  THEN SubSeq(refreshTokens, Len(refreshTokens) - MaxStoredTokens + 1, Len(refreshTokens))
  ELSE refreshTokens

\* One second passes.
clock_tick ==
  /\ auth.now < MaxClock
  /\ auth' = [auth EXCEPT !.now = @ + 1]
  /\ UNCHANGED <<gens, credits, premium, runs, cancelReq, retryReq, nextGen, nextRun,
                 budget, call, txns, pays, refunds, createReq, deleteReq, intentReq,
                 adminReq>>

\* A sign-in request (login, verifyEmail, googleSignIn) read the user document:
\* the in-memory user holds the stored refreshTokens and __v.
signedIn(kind) ==
  [NoSession EXCEPT !.pc = "generateTokens", !.kind = kind, !.v = auth.v,
                    !.refreshTokens = auth.refreshTokens]

\* login: User.findOne({email, isActive: true}) resolves (401 when nothing is
\* found); comparePassword is started.
login_findOne(s) ==
  /\ auth.login[s].pc = "idle"
  /\ auth.logins > 0
  /\ \A u \in LoginReqs : u < s => auth.login[u].pc # "idle"
  /\ auth' = [auth EXCEPT
       !.logins = @ - 1,
       !.login[s] = IF auth.isActive THEN signedIn("login")
                    ELSE [NoSession EXCEPT !.res = "401"]]
  /\ UNCHANGED <<gens, credits, premium, runs, cancelReq, retryReq, nextGen, nextRun,
                 budget, call, txns, pays, refunds, createReq, deleteReq, intentReq,
                 adminReq>>

\* verifyEmail: User.findOne by the verification code resolves (400 when the
\* code is invalid or has expired); the save of the verified user is started.
verifyEmail_findOne(s, valid) ==
  /\ auth.login[s].pc = "idle"
  /\ auth.logins > 0
  /\ \A u \in LoginReqs : u < s => auth.login[u].pc # "idle"
  /\ auth' = [auth EXCEPT
       !.logins = @ - 1,
       !.login[s] = IF valid THEN signedIn("verifyEmail")
                    ELSE [NoSession EXCEPT !.res = "400"]]
  /\ UNCHANGED <<gens, credits, premium, runs, cancelReq, retryReq, nextGen, nextRun,
                 budget, call, txns, pays, refunds, createReq, deleteReq, intentReq,
                 adminReq>>

\* googleSignIn, for the Google account of this user: verifyIdToken resolves
\* or rejects; a rejection and a payload that differs from the body are
\* answered with 401; otherwise User.findOne by email or googleId is started.
googleSignIn_verifyIdToken(s, verified) ==
  /\ auth.login[s].pc = "idle"
  /\ auth.logins > 0
  /\ \A u \in LoginReqs : u < s => auth.login[u].pc # "idle"
  /\ auth' = [auth EXCEPT
       !.logins = @ - 1,
       !.login[s] = IF verified
                    THEN [NoSession EXCEPT !.pc = "findOne", !.kind = "googleSignIn"]
                    ELSE [NoSession EXCEPT !.res = "401"]]
  /\ UNCHANGED <<gens, credits, premium, runs, cancelReq, retryReq, nextGen, nextRun,
                 budget, call, txns, pays, refunds, createReq, deleteReq, intentReq,
                 adminReq>>

\* googleSignIn: User.findOne resolves with the user.  Without a googleId the
\* user gets one and its save is started; otherwise lastLogin is assigned and
\* its save is started.
googleSignIn_findOne(s) ==
  /\ auth.login[s].pc = "findOne"
  /\ auth' = [auth EXCEPT !.login[s] =
       IF auth.googleId THEN signedIn("googleSignIn")
       ELSE [signedIn("googleSignIn") EXCEPT !.pc = "saveGoogleId"]]
  /\ UNCHANGED <<gens, credits, premium, runs, cancelReq, retryReq, nextGen, nextRun,
                 budget, call, txns, pays, refunds, createReq, deleteReq, intentReq,
                 adminReq>>

\* googleSignIn: the save of googleId resolves; lastLogin is assigned and its
\* save is started.
googleSignIn_save(s) ==
  /\ auth.login[s].pc = "saveGoogleId"
  /\ auth' = [auth EXCEPT !.googleId = TRUE, !.login[s].pc = "generateTokens"]
  /\ UNCHANGED <<gens, credits, premium, runs, cancelReq, retryReq, nextGen, nextRun,
                 budget, call, txns, pays, refunds, createReq, deleteReq, intentReq,
                 adminReq>>

\* login: comparePassword resolves, 401 for a wrong password (verifyEmail,
\* googleSignIn: the save that precedes the tokens resolves; it changes
\* neither refreshTokens nor __v).  The tokens are generated, the refresh
\* token is pushed on the in-memory array (and the array reassigned when it
\* is longer than 5), and save is started.
login_generateTokens(s, isPasswordValid) ==
  LET l == auth.login[s]
      refreshToken == generateTokens(auth.now)
      pushed == Append(l.refreshTokens, refreshToken)
  IN /\ l.pc = "generateTokens"
     /\ auth' = [auth EXCEPT !.login[s] =
          IF l.kind = "login" /\ ~isPasswordValid THEN [NoSession EXCEPT !.res = "401"]
          ELSE [l EXCEPT !.pc = "save", !.refreshTokens = keepLast(pushed),
                         !.reassigned = Len(pushed) > MaxStoredTokens,
                         !.newRefreshToken = refreshToken]]
     /\ UNCHANGED <<gens, credits, premium, runs, cancelReq, retryReq, nextGen, nextRun,
                 budget, call, txns, pays, refunds, createReq, deleteReq, intentReq,
                 adminReq>>

\* login, verifyEmail, googleSignIn: the save resolves (200) or throws.  A
\* pushed element is sent as $push and increments __v; a reassigned array is
\* sent as $set and matches only the __v that was read.  login and verifyEmail
\* leave the VersionError to the error handler (500); googleSignIn catches it
\* with every other error and answers 401.
login_save(s) ==
  LET l == auth.login[s]
      conflict == l.reassigned /\ auth.v # l.v
  IN /\ l.pc = "save"
     /\ auth' =
          IF conflict
          THEN [auth EXCEPT !.login[s] =
                  [NoSession EXCEPT !.res = IF l.kind = "googleSignIn" THEN "401"
                                            ELSE "500"]]
          ELSE [auth EXCEPT
                  !.refreshTokens = IF l.reassigned THEN l.refreshTokens
                                    ELSE Append(@, l.newRefreshToken),
                  !.v = @ + 1,
                  !.issued = @ \cup {l.newRefreshToken},
                  !.login[s] = [NoSession EXCEPT !.res = "200"]]
     /\ UNCHANGED <<gens, credits, premium, runs, cancelReq, retryReq, nextGen, nextRun,
                 budget, call, txns, pays, refunds, createReq, deleteReq, intentReq,
                 adminReq>>

\* refreshToken: the token verifies; User.findById resolves; the user must be
\* active and the token among the stored ones (401 otherwise); new tokens are
\* generated, the old one is filtered out, the new one pushed, and save is started.
refreshToken_findById(s, refreshToken) ==
  LET tokenExists == some(auth.refreshTokens, refreshToken)
      newRefreshToken == generateTokens(auth.now)
      pushed == Append(filter(auth.refreshTokens, refreshToken), newRefreshToken)
  IN /\ auth.refresh[s].pc = "idle"
     /\ auth.requests > 0
     /\ refreshToken \in auth.issued
     /\ auth' = [auth EXCEPT !.requests = @ - 1, !.refresh[s] =
          IF ~auth.isActive \/ ~tokenExists
          THEN [NoSession EXCEPT !.pc = "done", !.token = refreshToken, !.res = "401"]
          ELSE [NoSession EXCEPT !.pc = "save", !.token = refreshToken, !.v = auth.v,
                                 !.refreshTokens = keepLast(pushed),
                                 !.reassigned = TRUE,
                                 !.newRefreshToken = newRefreshToken]]
     /\ UNCHANGED <<gens, credits, premium, runs, cancelReq, retryReq, nextGen, nextRun,
                 budget, call, txns, pays, refunds, createReq, deleteReq, intentReq,
                 adminReq>>

\* refreshToken: the save resolves (200 with the new tokens), or throws a
\* VersionError, which the catch block answers with 401.
refreshToken_save(s) ==
  LET r == auth.refresh[s]
  IN /\ r.pc = "save"
     /\ auth' =
          IF auth.v # r.v
          THEN [auth EXCEPT !.refresh[s] = [r EXCEPT !.pc = "done", !.res = "401",
                                                     !.newRefreshToken = NoToken]]
          ELSE [auth EXCEPT
                  !.refreshTokens = r.refreshTokens,
                  !.v = @ + 1,
                  !.issued = @ \cup {r.newRefreshToken},
                  !.refresh[s] = [r EXCEPT !.pc = "done", !.res = "200"]]
     /\ UNCHANGED <<gens, credits, premium, runs, cancelReq, retryReq, nextGen, nextRun,
                 budget, call, txns, pays, refunds, createReq, deleteReq, intentReq,
                 adminReq>>

\* The kinds of logout request: logout with a refresh token in the body,
\* logout without one, and logoutAll.
LogoutKinds == {"logoutWithToken", "logout", "logoutAll"}

\* logout / logoutAll: authenticateToken loads the user without the
\* refreshTokens path (401 for an inactive user), so the handler finds it
\* undefined; logout sets it to [] and filters that, logoutAll assigns [];
\* save is started.
logout_authenticateToken(s, kind) ==
  /\ auth.logout[s].pc = "idle"
  /\ auth.requests > 0
  /\ auth' = [auth EXCEPT !.requests = @ - 1, !.logout[s] =
       IF ~auth.isActive THEN [NoSession EXCEPT !.pc = "done", !.kind = kind, !.res = "401"]
       ELSE [NoSession EXCEPT !.pc = "save", !.kind = kind, !.v = auth.v,
                              !.refreshTokens = <<>>, !.reassigned = TRUE]]
  /\ UNCHANGED <<gens, credits, premium, runs, cancelReq, retryReq, nextGen, nextRun,
                 budget, call, txns, pays, refunds, createReq, deleteReq, intentReq,
                 adminReq>>

\* logout / logoutAll: the save resolves (200), or throws a VersionError (500).
logout_save(s) ==
  LET o == auth.logout[s]
  IN /\ o.pc = "save"
     /\ auth' =
          IF auth.v # o.v
          THEN [auth EXCEPT !.logout[s] = [o EXCEPT !.pc = "done", !.res = "500"]]
          ELSE [auth EXCEPT
                  !.refreshTokens = o.refreshTokens,
                  !.v = @ + 1,
                  !.logout[s] = [o EXCEPT !.pc = "done", !.res = "200"]]
     /\ UNCHANGED <<gens, credits, premium, runs, cancelReq, retryReq, nextGen, nextRun,
                 budget, call, txns, pays, refunds, createReq, deleteReq, intentReq,
                 adminReq>>

\* The handlers that clear the tokens of a user they load with its
\* refreshTokens: changePassword, deleteAccount and resetPassword.
PasswordKinds == {"changePassword", "deleteAccount", "resetPassword"}

\* changePassword / deleteAccount: authenticateToken resolves (401 for an
\* inactive user) and the handler starts its User.findById.  resetPassword
\* takes no access token: its User.findOne by the reset code is started.
changePassword_authenticateToken(s, kind) ==
  /\ auth.password[s].pc = "idle"
  /\ auth.requests > 0
  /\ auth' = [auth EXCEPT !.requests = @ - 1, !.password[s] =
       IF kind # "resetPassword" /\ ~auth.isActive
       THEN [NoSession EXCEPT !.pc = "done", !.kind = kind, !.res = "401"]
       ELSE [NoSession EXCEPT !.pc = "findById", !.kind = kind]]
  /\ UNCHANGED <<gens, credits, premium, runs, cancelReq, retryReq, nextGen, nextRun,
                 budget, call, txns, pays, refunds, createReq, deleteReq, intentReq,
                 adminReq>>

\* changePassword / deleteAccount: User.findById resolves and comparePassword
\* is started.  resetPassword: User.findOne resolves, 400 when the code is
\* invalid or has expired; otherwise the save of the new password is started.
\* The in-memory user holds the stored refreshTokens, __v and isActive.
changePassword_findById(s, valid) ==
  LET o == auth.password[s]
  IN /\ o.pc = "findById"
     /\ auth' = [auth EXCEPT !.password[s] =
          IF o.kind = "resetPassword" /\ ~valid THEN [o EXCEPT !.pc = "done", !.res = "400"]
          ELSE [o EXCEPT !.pc = IF o.kind = "resetPassword" THEN "passwordSave"
                                ELSE "comparePassword",
                         !.v = auth.v, !.isActive = auth.isActive,
                         !.refreshTokens = auth.refreshTokens]]
     /\ UNCHANGED <<gens, credits, premium, runs, cancelReq, retryReq, nextGen, nextRun,
                 budget, call, txns, pays, refunds, createReq, deleteReq, intentReq,
                 adminReq>>

\* user.refreshTokens = []: the path is modified unless the array read was
\* already empty.
clearTokens(o) ==
  [o EXCEPT !.pc = "save", !.reassigned = o.refreshTokens # <<>>, !.refreshTokens = <<>>]

\* changePassword / deleteAccount: comparePassword resolves, 401 for a wrong
\* password.  changePassword assigns the new password and starts its save;
\* deleteAccount assigns isActive = false and refreshTokens = [] and starts
\* its save.
changePassword_comparePassword(s, isPasswordValid) ==
  LET o == auth.password[s]
  IN /\ o.pc = "comparePassword"
     /\ auth' = [auth EXCEPT !.password[s] =
          IF ~isPasswordValid THEN [o EXCEPT !.pc = "done", !.res = "401"]
          ELSE IF o.kind = "changePassword" THEN [o EXCEPT !.pc = "passwordSave"]
          ELSE clearTokens(o)]
     /\ UNCHANGED <<gens, credits, premium, runs, cancelReq, retryReq, nextGen, nextRun,
                 budget, call, txns, pays, refunds, createReq, deleteReq, intentReq,
                 adminReq>>

\* changePassword / resetPassword: the save of the new password resolves;
\* refreshTokens = [] is assigned and the second save is started.
changePassword_passwordSave(s) ==
  LET o == auth.password[s]
  IN /\ o.pc = "passwordSave"
     /\ auth' = [auth EXCEPT !.password[s] = clearTokens(o)]
     /\ UNCHANGED <<gens, credits, premium, runs, cancelReq, retryReq, nextGen, nextRun,
                 budget, call, txns, pays, refunds, createReq, deleteReq, intentReq,
                 adminReq>>

\* changePassword / deleteAccount / resetPassword: the last save resolves
\* (200), or throws a VersionError (500).  A modified array is sent as $set
\* and matches only the __v that was read; deleteAccount also sets isActive
\* to false when the user it read was active.
changePassword_save(s) ==
  LET o == auth.password[s]
      conflict == o.reassigned /\ auth.v # o.v
  IN /\ o.pc = "save"
     /\ auth' =
          IF conflict
          THEN [auth EXCEPT !.password[s] = [o EXCEPT !.pc = "done", !.res = "500"]]
          ELSE [auth EXCEPT
                  !.refreshTokens = IF o.reassigned THEN <<>> ELSE @,
                  !.v = IF o.reassigned THEN @ + 1 ELSE @,
                  !.isActive = IF o.kind = "deleteAccount" /\ o.isActive THEN FALSE ELSE @,
                  !.password[s] = [o EXCEPT !.pc = "done", !.res = "200"]]
     /\ UNCHANGED <<gens, credits, premium, runs, cancelReq, retryReq, nextGen, nextRun,
                 budget, call, txns, pays, refunds, createReq, deleteReq, intentReq,
                 adminReq>>

\* validate(updateUserSchema) with stripUnknown: the keys of the body that the
\* schema declares.  A key holds <<>> when the body does not send it.
UpdateBodies == [credits : {<<>>, <<0>>}, isActive : {<<>>, <<TRUE>>, <<FALSE>>}]
updateUserSchema(body) == [isActive |-> body.isActive]

\* adminController.updateUser: User.findByIdAndUpdate(userId, updates) with
\* the validated body resolves.
admin_updateUser(body) ==
  LET updates == updateUserSchema(body)
  IN /\ auth.requests > 0
     /\ auth' = [auth EXCEPT !.isActive = IF updates.isActive = <<>> THEN @
                                          ELSE updates.isActive[1],
                             !.requests = @ - 1]
     /\ UNCHANGED <<gens, credits, premium, runs, cancelReq, retryReq, nextGen, nextRun,
                 budget, call, txns, pays, refunds, createReq, deleteReq, intentReq,
                 adminReq>>

\* adminController.toggleUserStatus: User.findByIdAndUpdate sets isActive.
admin_toggleUserStatus(isActive) ==
  /\ auth.requests > 0
  /\ auth' = [auth EXCEPT !.isActive = isActive, !.requests = @ - 1]
  /\ UNCHANGED <<gens, credits, premium, runs, cancelReq, retryReq, nextGen, nextRun,
                 budget, call, txns, pays, refunds, createReq, deleteReq, intentReq,
                 adminReq>>

(* ----------------------------- specification --------------------------- *)
Init ==
  /\ gens = [g \in Gens |-> NoRecord]
  /\ credits = InitialCredits
  /\ premium = FALSE
  /\ runs = [r \in Runs |-> IdleRun]
  /\ cancelReq = NoRequest
  /\ retryReq = NoRequest
  /\ nextGen = 1
  /\ nextRun = 1
  /\ budget = [create |-> MaxCreates, cancel |-> MaxCancels, retry |-> MaxRetryOps, delete |-> MaxDeletes,
               adminDelete |-> MaxAdminDeletes, adminCredits |-> 0]
  /\ call = NoCall
  /\ txns = Registered
  /\ pays = [h \in Deliveries |-> NoDelivery]
  /\ refunds = [q \in RefundReqs |-> NoRefund]
  /\ auth = NoAuth
  /\ createReq = [c \in CreateReqs |-> NoCreate]
  /\ deleteReq = NoDelete
  /\ intentReq = [t \in Txns |-> NoIntent]
  /\ adminReq = NoAdmin

Next ==
  \/ \E c \in CreateReqs : createGeneration_authenticateToken(c)
  \/ \E c \in CreateReqs, input \in ImageCountInputs, inputImageUrl \in InputImages :
       createGeneration(c, input, inputImageUrl)
  \/ \E c \in CreateReqs, fetched \in BOOLEAN : createGeneration_get(c, fetched)
  \/ \E c \in CreateReqs : createGeneration_uploadImage(c)
  \/ \E c \in CreateReqs : createGeneration_create(c)
  \/ \E r \in Runs : processGeneration_findById(r)
  \/ \E r \in Runs : processGeneration_startProcessing(r)
  \/ \E r \in Runs, outcome \in ProviderOutcomes, result \in ProviderResults :
       processGeneration_callFalAI(r, outcome, result)
  \/ \E r \in Runs : processGeneration_sleep(r)
  \/ \E r \in Runs, fetched \in BOOLEAN : processGeneration_get(r, fetched)
  \/ \E r \in Runs, uploaded \in BOOLEAN : processGeneration_uploadImage(r, uploaded)
  \/ \E r \in Runs : processGeneration_complete(r)
  \/ \E r \in Runs : processGeneration_findUser(r)
  \/ \E r \in Runs : processGeneration_deductCredits(r)
  \/ \E r \in Runs : processGeneration_catch(r)
  \/ \E r \in Runs : processGeneration_fail(r)
  \/ \E g \in Gens, caller \in Callers : cancelGeneration_findOne(g, caller)
  \/ cancelGeneration_fail
  \/ retryGeneration_authenticateToken
  \/ \E g \in Gens, caller \in Callers : retryGeneration_findOne(g, caller)
  \/ retryGeneration_save
  \/ \E g \in Gens, caller \in Callers : deleteGeneration_findOne(g, caller)
  \/ \E rejected \in BOOLEAN : deleteGeneration_deleteImage(rejected)
  \/ \E removed \in BOOLEAN : deleteGeneration_findByIdAndDelete(removed)
  \/ \E g \in Gens : admin_deleteGeneration(g)

Spec == Init /\ [][Next]_vars

(* ------------------- the lifecycle with its awaits fair ------------------ *)
\* Every await of a createGeneration request, of a processGeneration run, of
\* cancelGeneration and of retryGeneration resolves or rejects: the step that
\* follows it is taken.
Fairness ==
  /\ \A c \in CreateReqs :
       /\ WF_vars(\E fetched \in BOOLEAN : createGeneration_get(c, fetched))
       /\ WF_vars(createGeneration_uploadImage(c))
       /\ WF_vars(createGeneration_create(c))
  /\ \A r \in Runs :
       /\ WF_vars(processGeneration_findById(r))
       /\ WF_vars(processGeneration_startProcessing(r))
       /\ WF_vars(\E outcome \in ProviderOutcomes, result \in ProviderResults :
                    processGeneration_callFalAI(r, outcome, result))
       /\ WF_vars(processGeneration_sleep(r))
       /\ WF_vars(\E fetched \in BOOLEAN : processGeneration_get(r, fetched))
       /\ WF_vars(\E uploaded \in BOOLEAN : processGeneration_uploadImage(r, uploaded))
       /\ WF_vars(processGeneration_complete(r))
       /\ WF_vars(processGeneration_findUser(r))
       /\ WF_vars(processGeneration_deductCredits(r))
       /\ WF_vars(processGeneration_catch(r))
       /\ WF_vars(processGeneration_fail(r))
  /\ WF_vars(cancelGeneration_fail)
  /\ WF_vars(retryGeneration_save)

\* The image counts requested here: each record reserves the whole initial
\* balance, so the second record to complete meets 'Insufficient credits'.
LiveImageCounts == {[t |-> "num", n |-> 4]}

\* The input images sent here: none, or a remote URL.
LiveInputImages == {NoRef, Ref("https", 0)}

\* No delete request arrives: every save finds its record.
LiveInit ==
  /\ gens = [g \in Gens |-> NoRecord]
  /\ credits = InitialCredits
  /\ premium = FALSE
  /\ runs = [r \in Runs |-> IdleRun]
  /\ cancelReq = NoRequest
  /\ retryReq = NoRequest
  /\ nextGen = 1
  /\ nextRun = 1
  /\ budget = [create |-> MaxCreates, cancel |-> MaxCancels, retry |-> MaxRetryOps, delete |-> 0,
               adminDelete |-> 0, adminCredits |-> 0]
  /\ call = NoCall
  /\ txns = Registered
  /\ pays = [h \in Deliveries |-> NoDelivery]
  /\ refunds = [q \in RefundReqs |-> NoRefund]
  /\ auth = NoAuth
  /\ createReq = [c \in CreateReqs |-> NoCreate]
  /\ deleteReq = NoDelete
  /\ intentReq = [t \in Txns |-> NoIntent]
  /\ adminReq = NoAdmin

LiveNext ==
  \/ \E c \in CreateReqs : createGeneration_authenticateToken(c)
  \/ \E c \in CreateReqs, input \in LiveImageCounts, inputImageUrl \in LiveInputImages :
       createGeneration(c, input, inputImageUrl)
  \/ \E c \in CreateReqs, fetched \in BOOLEAN : createGeneration_get(c, fetched)
  \/ \E c \in CreateReqs : createGeneration_uploadImage(c)
  \/ \E c \in CreateReqs : createGeneration_create(c)
  \/ \E r \in Runs : processGeneration_findById(r)
  \/ \E r \in Runs : processGeneration_startProcessing(r)
  \/ \E r \in Runs, outcome \in ProviderOutcomes, result \in ProviderResults :
       processGeneration_callFalAI(r, outcome, result)
  \/ \E r \in Runs : processGeneration_sleep(r)
  \/ \E r \in Runs, fetched \in BOOLEAN : processGeneration_get(r, fetched)
  \/ \E r \in Runs, uploaded \in BOOLEAN : processGeneration_uploadImage(r, uploaded)
  \/ \E r \in Runs : processGeneration_complete(r)
  \/ \E r \in Runs : processGeneration_findUser(r)
  \/ \E r \in Runs : processGeneration_deductCredits(r)
  \/ \E r \in Runs : processGeneration_catch(r)
  \/ \E r \in Runs : processGeneration_fail(r)
  \/ \E g \in Gens, caller \in Callers : cancelGeneration_findOne(g, caller)
  \/ cancelGeneration_fail
  \/ retryGeneration_authenticateToken
  \/ \E g \in Gens, caller \in Callers : retryGeneration_findOne(g, caller)
  \/ retryGeneration_save

LiveSpec == LiveInit /\ [][LiveNext]_vars /\ Fairness

(* --------------- the helper calls, each followed on its own ------------- *)
\* One helper call has just been made, on inputs drawn from the bounded sets.
HelperCalls ==
  {callFalAI_called(script) : script \in FalScripts}
  \cup UNION {{uploadLoop_entered(result, outcomes) :
                 outcomes \in [1..Len(result) -> StoreOutcomes]} : result \in LoopResults}
  \cup {downloadAndUploadToS3_called(imageUrl, outcome) :
          imageUrl \in DownloadRefs, outcome \in StoreOutcomes}

HelperInit ==
  /\ gens = [g \in Gens |-> NoRecord]
  /\ credits = InitialCredits
  /\ premium = FALSE
  /\ runs = [r \in Runs |-> IdleRun]
  /\ cancelReq = NoRequest
  /\ retryReq = NoRequest
  /\ nextGen = 1
  /\ nextRun = 1
  /\ budget = [create |-> MaxRecords, cancel |-> MaxCancels, retry |-> MaxRetryOps, delete |-> MaxDeletes,
               adminDelete |-> MaxAdminDeletes, adminCredits |-> 0]
  /\ call \in HelperCalls
  /\ txns = Registered
  /\ pays = [h \in Deliveries |-> NoDelivery]
  /\ refunds = [q \in RefundReqs |-> NoRefund]
  /\ auth = NoAuth
  /\ createReq = [c \in CreateReqs |-> NoCreate]
  /\ deleteReq = NoDelete
  /\ intentReq = [t \in Txns |-> NoIntent]
  /\ adminReq = NoAdmin

HelperNext ==
  \/ \E random \in Jitters : callFalAI_subscribe(random)
  \/ callFalAI_sleep
  \/ uploadLoop_iteration
  \/ downloadAndUploadToS3_entry
  \/ downloadAndUploadToS3_get
  \/ downloadAndUploadToS3_uploadImage

HelperSpec == HelperInit /\ [][HelperNext]_vars

(* ------- the account: generations that run to their end, and payments ---- *)
\* No cancel, retry or delete request arrives: every run goes from its guard
\* to its end, while payments, refunds and the administrator's credit
\* operations on the same account are processed.
LedgerInit ==
  /\ gens = [g \in Gens |-> NoRecord]
  /\ credits = InitialCredits
  /\ premium = FALSE
  /\ runs = [r \in Runs |-> IdleRun]
  /\ cancelReq = NoRequest
  /\ retryReq = NoRequest
  /\ nextGen = 1
  /\ nextRun = 1
  /\ budget = [create |-> MaxRecords, cancel |-> 0, retry |-> 0, delete |-> 0,
               adminDelete |-> 0, adminCredits |-> MaxAdminCredits]
  /\ call = NoCall
  /\ txns = Registered
  /\ pays = [h \in Deliveries |-> NoDelivery]
  /\ refunds = [q \in RefundReqs |-> NoRefund]
  /\ auth = NoAuth
  /\ createReq = [c \in CreateReqs |-> NoCreate]
  /\ deleteReq = NoDelete
  /\ intentReq = [t \in Txns |-> NoIntent]
  /\ adminReq = NoAdmin

\* The requests of the account here: two images each and no input image, so
\* that Generation.create is started at once; the provider returns one remote
\* reference at its first attempt, so that no backoff sleep is taken.
LedgerImageCounts == {[t |-> "num", n |-> 2]}
LedgerInputImages == {NoRef}
LedgerOutcomes == {"ok"}
LedgerResults == {<<"https">>}

LedgerNext ==
  \/ \E c \in CreateReqs : createGeneration_authenticateToken(c)
  \/ \E c \in CreateReqs, input \in LedgerImageCounts, inputImageUrl \in LedgerInputImages :
       createGeneration(c, input, inputImageUrl)
  \/ \E c \in CreateReqs : createGeneration_create(c)
  \/ \E r \in Runs : processGeneration_findById(r)
  \/ \E r \in Runs : processGeneration_startProcessing(r)
  \/ \E r \in Runs, outcome \in LedgerOutcomes, result \in LedgerResults :
       processGeneration_callFalAI(r, outcome, result)
  \/ \E r \in Runs, fetched \in BOOLEAN : processGeneration_get(r, fetched)
  \/ \E r \in Runs, uploaded \in BOOLEAN : processGeneration_uploadImage(r, uploaded)
  \/ \E r \in Runs : processGeneration_complete(r)
  \/ \E r \in Runs : processGeneration_findUser(r)
  \/ \E r \in Runs : processGeneration_deductCredits(r)
  \/ \E r \in Runs : processGeneration_catch(r)
  \/ \E r \in Runs : processGeneration_fail(r)
  \/ \E t \in Txns, packageId \in PackageIds : createPaymentIntent(t, packageId)
  \/ \E t \in Txns, error \in StripeErrors : createPaymentIntent_paymentIntents(t, error)
  \/ \E t \in Txns : createPaymentIntent_save(t)
  \/ \E h \in 1..MaxDeliveries, t \in Txns : confirmPayment_retrieve(h, t)
  \/ \E h \in 1..MaxDeliveries, succeeded \in BOOLEAN : confirmPayment_findById(h, succeeded)
  \/ \E h \in 1..MaxDeliveries, t \in Txns : handlePaymentIntentSucceeded(h, t)
  \/ \E h \in 1..MaxDeliveries, t \in Txns : handlePaymentIntentFailed(h, t)
  \/ \E h \in 1..MaxDeliveries : handlePaymentIntentFailed_fail(h)
  \/ \E h \in 1..MaxDeliveries : processSuccessfulPayment_findUser(h)
  \/ \E h \in 1..MaxDeliveries : processSuccessfulPayment_addCredits(h)
  \/ \E h \in 1..MaxDeliveries : processSuccessfulPayment_complete(h)
  \/ \E h \in 1..MaxDeliveries : processSuccessfulPayment_fail(h)
  \/ \E q \in 1..MaxRefunds, t \in Txns, withinDay \in BOOLEAN : refundPayment_findOne(q, t, withinDay)
  \/ \E q \in 1..MaxRefunds, stripeOk \in BOOLEAN : refundPayment_refunds(q, stripeOk)
  \/ \E q \in 1..MaxRefunds : processRefund_findUser(q)
  \/ \E q \in 1..MaxRefunds : processRefund_inc(q)
  \/ \E q \in 1..MaxRefunds : processRefund_refund(q)
  \/ \E amount \in AdminAmounts : admin_addCreditsToUser(amount)
  \/ admin_addCreditsToUser_addCredits
  \/ \E t \in Txns : admin_addCreditsToUser_create(t)

LedgerSpec == LedgerInit /\ [][LedgerNext]_vars

(* --------- payments: repeated deliveries and repeated refund requests ----- *)
\* No generation is requested: the transactions of the account are paid,
\* delivered (confirmPayment and the webhooks) and refunded.
PaymentInit == LedgerInit

PaymentNext ==
  \/ \E t \in Txns, packageId \in PackageIds : createPaymentIntent(t, packageId)
  \/ \E t \in Txns, error \in StripeErrors : createPaymentIntent_paymentIntents(t, error)
  \/ \E t \in Txns : createPaymentIntent_save(t)
  \/ \E h \in Deliveries, t \in Txns : confirmPayment_retrieve(h, t)
  \/ \E h \in Deliveries, succeeded \in BOOLEAN : confirmPayment_findById(h, succeeded)
  \/ \E h \in Deliveries, t \in Txns : handlePaymentIntentSucceeded(h, t)
  \/ \E h \in Deliveries, t \in Txns : handlePaymentIntentFailed(h, t)
  \/ \E h \in Deliveries : handlePaymentIntentFailed_fail(h)
  \/ \E h \in Deliveries : processSuccessfulPayment_findUser(h)
  \/ \E h \in Deliveries : processSuccessfulPayment_addCredits(h)
  \/ \E h \in Deliveries : processSuccessfulPayment_complete(h)
  \/ \E h \in Deliveries : processSuccessfulPayment_fail(h)
  \/ \E q \in RefundReqs, t \in Txns, withinDay \in BOOLEAN : refundPayment_findOne(q, t, withinDay)
  \/ \E q \in RefundReqs, stripeOk \in BOOLEAN : refundPayment_refunds(q, stripeOk)
  \/ \E q \in RefundReqs : processRefund_findUser(q)
  \/ \E q \in RefundReqs : processRefund_inc(q)
  \/ \E q \in RefundReqs : processRefund_refund(q)
  \/ \E amount \in AdminAmounts : admin_addCreditsToUser(amount)
  \/ admin_addCreditsToUser_addCredits
  \/ \E t \in Txns : admin_addCreditsToUser_create(t)

PaymentSpec == PaymentInit /\ [][PaymentNext]_vars

(* ------------- generations under repeated cancel requests --------------- *)
\* No retry or delete request arrives; the records of the account are
\* processed while cancel requests for them keep arriving.
CancelInit ==
  /\ gens = [g \in Gens |-> NoRecord]
  /\ credits = InitialCredits
  /\ premium \in BOOLEAN
  /\ runs = [r \in Runs |-> IdleRun]
  /\ cancelReq = NoRequest
  /\ retryReq = NoRequest
  /\ nextGen = 1
  /\ nextRun = 1
  /\ budget = [create |-> MaxCreates, cancel |-> MaxRepeatedCancels, retry |-> 0, delete |-> 0,
               adminDelete |-> 0, adminCredits |-> 0]
  /\ call = NoCall
  /\ txns = Registered
  /\ pays = [h \in Deliveries |-> NoDelivery]
  /\ refunds = [q \in RefundReqs |-> NoRefund]
  /\ auth = NoAuth
  /\ createReq = [c \in CreateReqs |-> NoCreate]
  /\ deleteReq = NoDelete
  /\ intentReq = [t \in Txns |-> NoIntent]
  /\ adminReq = NoAdmin

CancelNext ==
  \/ \E c \in CreateReqs : createGeneration_authenticateToken(c)
  \/ \E c \in CreateReqs, input \in ImageCountInputs, inputImageUrl \in InputImages :
       createGeneration(c, input, inputImageUrl)
  \/ \E c \in CreateReqs, fetched \in BOOLEAN : createGeneration_get(c, fetched)
  \/ \E c \in CreateReqs : createGeneration_uploadImage(c)
  \/ \E c \in CreateReqs : createGeneration_create(c)
  \/ \E r \in Runs : processGeneration_findById(r)
  \/ \E r \in Runs : processGeneration_startProcessing(r)
  \/ \E r \in Runs, outcome \in ProviderOutcomes, result \in ProviderResults :
       processGeneration_callFalAI(r, outcome, result)
  \/ \E r \in Runs : processGeneration_sleep(r)
  \/ \E r \in Runs, fetched \in BOOLEAN : processGeneration_get(r, fetched)
  \/ \E r \in Runs, uploaded \in BOOLEAN : processGeneration_uploadImage(r, uploaded)
  \/ \E r \in Runs : processGeneration_complete(r)
  \/ \E r \in Runs : processGeneration_findUser(r)
  \/ \E r \in Runs : processGeneration_deductCredits(r)
  \/ \E r \in Runs : processGeneration_catch(r)
  \/ \E r \in Runs : processGeneration_fail(r)
  \/ \E g \in Gens, caller \in Callers : cancelGeneration_findOne(g, caller)
  \/ cancelGeneration_fail

CancelSpec == CancelInit /\ [][CancelNext]_vars

(* ------------ refresh tokens: logins, refreshes and logouts -------------- *)
\* The account signs in, refreshes its tokens, logs out and changes its
\* password while the clock runs.
\* A refresh token signed before the behaviour starts.
OldToken == generateTokens(-2)

\* The account as earlier sign-ins left it: MaxStoredTokens - 1 refresh
\* tokens stored, each push having incremented __v.
SignedInBefore ==
  [NoAuth EXCEPT !.refreshTokens = [i \in 1..(MaxStoredTokens - 1) |-> OldToken],
                 !.v = MaxStoredTokens - 1, !.issued = {OldToken}]

\* The tokens a client presents to refreshToken.
PresentedTokens == {generateTokens(k) : k \in 0..MaxClock} \cup {OldToken}

AuthInit ==
  /\ gens = [g \in Gens |-> NoRecord]
  /\ credits = InitialCredits
  /\ premium = FALSE
  /\ runs = [r \in Runs |-> IdleRun]
  /\ cancelReq = NoRequest
  /\ retryReq = NoRequest
  /\ nextGen = 1
  /\ nextRun = 1
  /\ budget = [create |-> 0, cancel |-> 0, retry |-> 0, delete |-> 0,
               adminDelete |-> 0, adminCredits |-> 0]
  /\ call = NoCall
  /\ txns = Registered
  /\ pays = [h \in Deliveries |-> NoDelivery]
  /\ refunds = [q \in RefundReqs |-> NoRefund]
  /\ auth \in {NoAuth, SignedInBefore}
  /\ createReq = [c \in CreateReqs |-> NoCreate]
  /\ deleteReq = NoDelete
  /\ intentReq = [t \in Txns |-> NoIntent]
  /\ adminReq = NoAdmin

AuthNext ==
  \/ clock_tick
  \/ \E s \in LoginReqs : login_findOne(s)
  \/ \E s \in LoginReqs, valid \in BOOLEAN : verifyEmail_findOne(s, valid)
  \/ \E s \in LoginReqs, verified \in BOOLEAN : googleSignIn_verifyIdToken(s, verified)
  \/ \E s \in LoginReqs : googleSignIn_findOne(s)
  \/ \E s \in LoginReqs : googleSignIn_save(s)
  \/ \E s \in LoginReqs, isPasswordValid \in BOOLEAN : login_generateTokens(s, isPasswordValid)
  \/ \E s \in LoginReqs : login_save(s)
  \/ \E s \in RefreshReqs, refreshToken \in PresentedTokens :
       refreshToken_findById(s, refreshToken)
  \/ \E s \in RefreshReqs : refreshToken_save(s)
  \/ \E s \in LogoutReqs, kind \in LogoutKinds : logout_authenticateToken(s, kind)
  \/ \E s \in LogoutReqs : logout_save(s)
  \/ \E s \in PasswordReqs, kind \in PasswordKinds : changePassword_authenticateToken(s, kind)
  \/ \E s \in PasswordReqs, valid \in BOOLEAN : changePassword_findById(s, valid)
  \/ \E s \in PasswordReqs, isPasswordValid \in BOOLEAN :
       changePassword_comparePassword(s, isPasswordValid)
  \/ \E s \in PasswordReqs : changePassword_passwordSave(s)
  \/ \E s \in PasswordReqs : changePassword_save(s)
  \/ \E isActive \in BOOLEAN : admin_toggleUserStatus(isActive)
  \/ \E body \in UpdateBodies : admin_updateUser(body)

AuthSpec == AuthInit /\ [][AuthNext]_vars

(* ------------------------------- claims -------------------------------- *)
\* The record of run r, and whether run r takes a step.
ActiveRun(r) == runs[r].pc \in ActivePcs
Steps(r) == runs'[r] # runs[r]

\* The number of successful deductCredits saves made for record g.
DeductionsOf(g) == Cardinality({r \in Runs : runs[r].gid = g /\ runs[r].deducted})

\* The record is failed with the reason cancelGeneration gives.
Cancelled(g) ==
  /\ gens[g].exists
  /\ gens[g].status = "failed"
  /\ gens[g].failureReason = CancelledByUser

\* C1: for every record, credits are deducted at most once for it, and every
\* deduction follows a completing write that took the record from processing to
\* completed.
C1_DeductedAtMostOnce ==
  /\ \A g \in Gens : DeductionsOf(g) <= 1
  /\ \A r \in Runs : runs[r].deducted => runs[r].from = "processing"

\* C2: once a record is failed with the cancellation reason, no step of a
\* processGeneration run that had passed the guard alters the record or the
\* account balance.
C2_CancelledRecordUntouched ==
  [][\A r \in Runs :
       (ActiveRun(r) /\ Steps(r) /\ Cancelled(runs[r].gid))
         => /\ gens'[runs[r].gid] = gens[runs[r].gid]
            /\ credits' = credits]_vars

\* C3: a completed record has at least one output reference, a failed record
\* has none, and output references are present only on a completed record.
C3_OutputsIffCompleted ==
  \A g \in Gens : gens[g].exists =>
    /\ gens[g].status = "completed" => Len(gens[g].generatedImageUrls) >= 1
    /\ gens[g].status = "failed" => Len(gens[g].generatedImageUrls) = 0
    /\ Len(gens[g].generatedImageUrls) >= 1 => gens[g].status = "completed"

\* C4: when deductCredits raises 'Insufficient credits' after the completed
\* write, no later step of that run changes the record: it stays completed with
\* its output references.
C4_DeductionFailureOnlyLogged ==
  [][\A r \in Runs :
       (runs[r].pc \in {"catch", "fail"} /\ runs[r].err = InsufficientCredits /\ Steps(r))
         => gens'[runs[r].gid] = gens[runs[r].gid]]_vars

\* C5: for a non-premium account whose balance covers the record, the
\* deduction of a completing run lowers the stored balance by exactly the
\* record's creditsUsed.
C5_DeductsExactlyCreditsUsed ==
  [][\A r \in Runs :
       (runs[r].pc = "deductCredits" /\ Steps(r) /\ ~premium
          /\ credits >= runs[r].creditsUsed)
         => credits' = credits - runs[r].creditsUsed]_vars

\* C6: createGeneration, cancelGeneration and retryGeneration leave the balance
\* as it was, and so does every step of a processGeneration run other than the
\* deductCredits save that ends its try block; a run that enters its catch
\* block (and so ends in a failed transition) has deducted nothing and never will.
C6_BalanceFrame ==
  [][/\ (createReq' # createReq \/ cancelReq' # cancelReq \/ retryReq' # retryReq)
          => credits' = credits
     /\ \A r \in Runs :
          /\ (Steps(r) /\ runs[r].pc # "deductCredits") => credits' = credits
          /\ (Steps(r) /\ runs[r].pc = "deductCredits") => runs'[r].outcome = "completed"
          /\ runs[r].pc \in {"catch", "fail"} =>
               /\ ~runs[r].deducted
               /\ runs'[r].pc \in {"catch", "fail", "done"}
               /\ ~runs'[r].deducted
               /\ runs'[r].outcome \in {NULL, "failed", "logged"}]_vars

\* C6 witness: a record was created, cancelled and retried, the retry's run
\* ended in a failed transition because the provider returned no images, and
\* the balance is the initial one.
C6_Witness ==
  /\ runs[1].pc = "done" /\ runs[2].pc = "done"
  /\ runs[1].gid = runs[2].gid
  /\ runs[2].outcome = "failed"
  /\ gens[runs[2].gid].exists
  /\ gens[runs[2].gid].status = "failed"
  /\ gens[runs[2].gid].failureReason = NoImagesGenerated
  /\ cancelReq.res = "200"
  /\ retryReq.res = "200"
  /\ credits = InitialCredits

\* C7: for an account in premium standing no step of a processGeneration run
\* changes the balance.
C7_PremiumBalanceUnchanged ==
  [][premium => \A r \in Runs : (ActiveRun(r) /\ Steps(r)) => credits' = credits]_vars

\* C8: a processGeneration call whose findById finds no record, or a record that
\* is not pending, returns at once: the collection and the balance are unchanged,
\* the run never reaches the provider or the store, and a returned run does nothing more.
C8_GuardIsNoOp ==
  [][\A r \in Runs :
       /\ (/\ runs[r].pc = "findById" /\ Steps(r)
           /\ (~gens[runs[r].gid].exists \/ gens[runs[r].gid].status # "pending"))
            => /\ runs'[r].pc = "done" /\ runs'[r].outcome = "noop"
               /\ ~runs'[r].deducted
               /\ gens' = gens /\ credits' = credits
       /\ runs[r].pc = "done" => runs'[r] = runs[r]]_vars

\* C8 witness: a run returned at the guard from a record that exists and is failed.
C8_Witness ==
  \E r \in Runs :
    /\ runs[r].pc = "done" /\ runs[r].outcome = "noop"
    /\ gens[runs[r].gid].exists
    /\ gens[runs[r].gid].status = "failed"
    /\ gens[runs[r].gid].processingStartedAt = NULL

\* C9: no two processGeneration invocations of the same record are past the
\* status guard at the same time.
C9_AtMostOneActiveRun ==
  \A r1, r2 \in Runs :
    (r1 # r2 /\ ActiveRun(r1) /\ ActiveRun(r2)) => runs[r1].gid # runs[r2].gid

\* The status changes the lifecycle allows.
AllowedTransitions ==
  {<<"pending", "processing">>, <<"processing", "completed">>,
   <<"processing", "failed">>, <<"pending", "failed">>, <<"failed", "pending">>}

\* C10: the status of a record changes only along the allowed transitions;
\* pending -> failed happens only in cancelGeneration and failed -> pending only
\* in retryGeneration.
C10_StatusTransitions ==
  [][\A g \in Gens :
       (gens[g].exists /\ gens'[g].exists /\ gens'[g].status # gens[g].status) =>
         /\ <<gens[g].status, gens'[g].status>> \in AllowedTransitions
         /\ (gens[g].status = "pending" /\ gens'[g].status = "failed")
              => (cancelReq.pc = "fail" /\ cancelReq'.pc = "idle")
         /\ (gens[g].status = "failed")
              => (retryReq.pc = "save" /\ retryReq'.pc = "idle")]_vars

\* The provider messages that contain '429', 'Too many requests' or 'rate limit'.
RateLimitMessages ==
  {"429 Too Many Requests", "Too many requests", "rate limit exceeded"}

\* C11: callFalAI makes another provider call only after a failure whose
\* message contains '429', 'Too many requests' or 'rate limit', and makes at
\* most maxRetries + 1 calls; a first failure that is not a rate limit gives
\* exactly one call, two rate limits followed by a success give exactly three,
\* and the number of calls is the one callFalAI(script) computes.
C11_RetryOnlyOnRateLimit ==
  call.fn = "callFalAI" =>
    /\ call.calls <= maxRetries + 1
    /\ \A k \in 1..call.attempt : call.script[k] \in RateLimitMessages
    /\ call.pc = "sleep" => call.failure \in RateLimitMessages
    /\ call.pc \in {"returned", "threw"} =>
         /\ call.script[1] \notin RateLimitMessages \cup {"ok"}
              => (call.calls = 1 /\ call.pc = "threw")
         /\ (/\ call.script[1] \in RateLimitMessages
             /\ call.script[2] \in RateLimitMessages
             /\ call.script[3] = "ok")
              => (call.calls = 3 /\ call.pc = "returned")
         /\ call.calls = callFalAI(call.script).calls

\* C11 witness: the provider rate-limited twice and then succeeded, and
\* callFalAI returned after its third call.
C11_Witness ==
  /\ call.fn = "callFalAI"
  /\ call.pc = "returned"
  /\ call.calls = 3
  /\ call.script[1] = "Too many requests"
  /\ call.script[2] = "rate limit exceeded"

\* C12: the k-th wait of a callFalAI call (after failed attempt k - 1) lies in
\* [2^(k-1) * 1000, 2^(k-1) * 1000 + 1000) ms, so the waits are 1000.., 2000..,
\* 4000.. and strictly increase; there are at most maxRetries waits, one after
\* each rate-limit failure that is retried, and none after the failure that
\* ends the call.
C12_BackoffWindow ==
  call.fn = "callFalAI" =>
    /\ \A k \in 1..Len(call.waits) :
         /\ call.waits[k] >= Pow2(k - 1) * 1000
         /\ call.waits[k] < Pow2(k - 1) * 1000 + 1000
         /\ k > 1 => call.waits[k] > call.waits[k - 1]
         /\ call.script[k] \in RateLimitMessages
    /\ Len(call.waits) <= maxRetries
    /\ Len(call.waits) = IF call.pc \in {"returned", "threw"}
                         THEN call.calls - 1 ELSE call.calls
    /\ Len(call.waits) >= 3 => call.waits[3] >= 4000

\* C12 witness: the provider rate-limited on all four attempts; callFalAI waited
\* three times, the last time at least 4000 ms, and threw without a fourth wait.
C12_Witness ==
  /\ call.fn = "callFalAI"
  /\ call.pc = "threw"
  /\ call.calls = maxRetries + 1
  /\ Len(call.waits) = maxRetries
  /\ call.waits[1] = 1999 /\ call.waits[2] = 2000 /\ call.waits[3] = 4500

\* C13: the error callFalAI raises follows the classification of the provider
\* failure that ended the call: a rate-limit failure gives the 'temporarily
\* overloaded' error, any other failure an 'unavailable' error that carries the
\* upstream message, and the two differ; the catch block of a run whose
\* provider call ended in a non-rate-limit failure leaves its record failed
\* with that 'unavailable' message as failureReason.
C13_TerminalErrorByClassification ==
  [][\A r \in Runs :
       /\ (runs[r].pc = "callFalAI" /\ Steps(r) /\ runs'[r].last # NULL) =>
            /\ runs'[r].pc = "catch"
            /\ runs'[r].last \in RateLimitMessages =>
                 /\ runs'[r].err = Overloaded
                 /\ includes(runs'[r].err, "temporarily overloaded")
                 /\ ~includes(runs'[r].err, "unavailable")
            /\ runs'[r].last \notin RateLimitMessages =>
                 /\ includes(runs'[r].err, "service unavailable: ")
                 /\ includes(runs'[r].err, runs'[r].last)
                 /\ ~includes(runs'[r].err, "overloaded")
       /\ (/\ runs[r].pc = "fail" /\ Steps(r)
           /\ runs[r].last # NULL /\ runs[r].last \notin RateLimitMessages
           /\ gens[runs[r].gid].exists) =>
            /\ gens'[runs[r].gid].status = "failed"
            /\ gens'[runs[r].gid].failureReason = runs[r].err
            /\ includes(gens'[runs[r].gid].failureReason, "unavailable")]_vars

\* C14: when retryGeneration, called on a failed record, has saved its reset,
\* the record is pending with failureReason, generatedImageUrls,
\* processingStartedAt, completedAt and processingTimeMs cleared, and its
\* creditsUsed and request parameters are as they were.
C14_RetryResets ==
  [][(retryReq.pc = "save" /\ retryReq'.pc = "idle" /\ runs' # runs) =>
       LET g == retryReq.gid IN
       /\ gens'[g].exists
       /\ gens'[g].status = "pending"
       /\ gens'[g].failureReason = NULL
       /\ gens'[g].generatedImageUrls = <<>>
       /\ gens'[g].processingStartedAt = NULL
       /\ gens'[g].completedAt = NULL
       /\ gens'[g].processingTimeMs = NULL
       /\ gens'[g].creditsUsed = gens[g].creditsUsed
       /\ gens'[g].num_images = gens[g].num_images]_vars

\* The image count a request asks for: a missing or non-numeric count is 1.
requestedImageCount(input) == IF input.t = "num" THEN input.n ELSE 1

clamp(x, lo, hi) == IF x < lo THEN lo ELSE IF x > hi THEN hi ELSE x

\* C15: a createGeneration request either is answered 400 or 403 and creates
\* nothing, or goes on with creditsRequired = clamp(requested image count, 1, 4),
\* a missing count being 1, and Generation.create stores that value as
\* creditsUsed; no later step (processGeneration, cancelGeneration,
\* retryGeneration) changes the creditsUsed of a record.
C15_CreditsUsedFixed ==
  [][/\ \A c \in CreateReqs, input \in ImageCountInputs, inputImageUrl \in InputImages :
          createGeneration(c, input, inputImageUrl) =>
            /\ createReq'[c].pc = "done" =>
                 (createReq'[c].res \in {"400", "403"} /\ gens' = gens /\ runs' = runs)
            /\ createReq'[c].pc # "done" =>
                 createReq'[c].numImages = clamp(requestedImageCount(input), 1, 4)
     /\ \A c \in CreateReqs :
          /\ (createReq[c].pc \in {"get", "uploadImage"} /\ createReq'[c] # createReq[c]) =>
               createReq'[c].numImages = createReq[c].numImages
          /\ (createReq[c].pc = "create" /\ createReq'[c] # createReq[c]) =>
               /\ gens'[nextGen].exists
               /\ gens'[nextGen].creditsUsed = createReq[c].numImages
     /\ \A g \in Gens :
          (gens[g].exists /\ gens'[g].exists) => gens'[g].creditsUsed = gens[g].creditsUsed]_vars

\* C15 witness: a record created from a request for 4 images holds 4 credits,
\* and it has been processed, cancelled and retried.
C15_Witness ==
  \E g \in Gens :
    /\ gens[g].exists
    /\ gens[g].creditsUsed = 4
    /\ gens[g].num_images = 4
    /\ gens[g].status = "pending"
    /\ gens[g].processingStartedAt # NULL
    /\ cancelReq.res = "200"
    /\ retryReq.res = "200"

\* The positions of the provider references that were fetched and stored.
Materialized(c) ==
  {i \in 1..Len(c.falImageUrls) :
     c.falImageUrls[i].scheme = "https" /\ c.outcomes[i] = "stored"}

\* C16: when the upload loop of processGeneration ends, generatedImageUrls
\* holds the stored reference of every provider reference that was
\* materialized, in provider order, and nothing for a reference whose fetch or
\* store failed: three provider references with one failure leave two.
C16_FailedMaterializationDropped ==
  (call.fn = "uploadLoop" /\ call.pc = "done") =>
    LET out == call.generatedImageUrls IN
    /\ Len(out) = Cardinality(Materialized(call))
    /\ \A j \in 1..Len(out) : out[j].scheme = "s3" /\ out[j].n \in Materialized(call)
    /\ \A j, k \in 1..Len(out) : j < k => out[j].n < out[k].n

\* C17: called with a string reference, downloadAndUploadToS3 never raises;
\* for a file:// reference it returns null without calling axios.get or
\* uploadImage; for a remote reference it returns the stored reference when
\* fetch and store succeed and the original reference when either fails; the
\* result is the one the upload loop uses.
C17_DownloadNeverRaises ==
  (call.fn = "downloadAndUploadToS3" /\ call.imageUrl.scheme \in RefSchemes) =>
    /\ ~call.raised
    /\ call.pc \in {"entry", "get", "uploadImage", "returned"}
    /\ call.imageUrl.scheme = "file" => (~call.fetched /\ ~call.uploaded)
    /\ call.pc = "returned" =>
         /\ call.imageUrl.scheme = "file" =>
              (call.result = NoRef /\ call.result # call.imageUrl)
         /\ (call.imageUrl.scheme = "https" /\ call.outcome = "stored") =>
              (call.result = Ref("s3", call.imageUrl.n) /\ call.fetched /\ call.uploaded)
         /\ (call.imageUrl.scheme = "https" /\ call.outcome = "fetchFails") =>
              (call.result = call.imageUrl /\ call.fetched /\ ~call.uploaded)
         /\ (call.imageUrl.scheme = "https" /\ call.outcome = "storeFails") =>
              (call.result = call.imageUrl /\ call.fetched /\ call.uploaded)
         /\ call.result = downloadAndUploadToS3(call.imageUrl, call.outcome)

\* C17 witness: the fetch of a remote reference succeeded, the store failed,
\* and the call returned the original reference.
C17_Witness ==
  /\ call.fn = "downloadAndUploadToS3"
  /\ call.pc = "returned"
  /\ call.imageUrl.scheme = "https"
  /\ call.outcome = "storeFails"
  /\ call.uploaded
  /\ call.result = call.imageUrl

\* C18: deductCredits(amount), called on the user document a run has just
\* loaded, throws 'Insufficient credits' and writes nothing when the balance is
\* below amount, and otherwise its save stores that balance less exactly
\* amount.  addCredits(amount) always succeeds: the save it starts, in
\* processSuccessfulPayment and in the admin's addCreditsToUser alike, resolves
\* and stores the balance of the document it was called on plus exactly amount.
C18_DeductAndAdd ==
  [][/\ \A r \in Runs :
          /\ (runs[r].pc = "findUser" /\ Steps(r) /\ credits < runs[r].creditsUsed) =>
               /\ runs'[r].pc = "catch"
               /\ runs'[r].err = InsufficientCredits
               /\ credits' = credits
          /\ (runs[r].pc = "findUser" /\ Steps(r) /\ credits >= runs[r].creditsUsed) =>
               /\ runs'[r].pc = "deductCredits"
               /\ runs'[r].ucred = credits - runs[r].creditsUsed
          /\ (runs[r].pc = "deductCredits" /\ Steps(r)) =>
               /\ credits' = runs[r].ucred
               /\ runs'[r].outcome = "completed"
     /\ \A h \in Deliveries :
          /\ (/\ pays[h].pc = "findUser" /\ pays'[h] # pays[h]
              /\ ~CREDIT_PACKAGES[txns[pays[h].tid].packageId].isPremium) =>
               /\ pays'[h].pc = "addCredits"
               /\ pays'[h].ucred = credits + txns[pays[h].tid].creditsAdded
          /\ (pays[h].pc = "addCredits" /\ pays'[h] # pays[h]) =>
               /\ pays'[h].pc = "complete"
               /\ credits' = pays[h].ucred
     /\ \A amount \in AdminAmounts :
          admin_addCreditsToUser(amount) => adminReq'.ucred = credits + amount
     /\ (adminReq.pc = "addCredits" /\ adminReq' # adminReq) =>
          /\ adminReq'.pc = "create"
          /\ credits' = adminReq.ucred]_vars

\* The part of C18 about deductCredits, and what addCredits computes.
C18_DeductCredits ==
  [][/\ \A r \in Runs :
          /\ (runs[r].pc = "findUser" /\ Steps(r) /\ credits < runs[r].creditsUsed) =>
               /\ runs'[r].pc = "catch"
               /\ runs'[r].err = InsufficientCredits
               /\ credits' = credits
          /\ (runs[r].pc = "findUser" /\ Steps(r) /\ credits >= runs[r].creditsUsed) =>
               /\ runs'[r].pc = "deductCredits"
               /\ runs'[r].ucred = credits - runs[r].creditsUsed
          /\ (runs[r].pc = "deductCredits" /\ Steps(r)) =>
               /\ credits' = runs[r].ucred
               /\ runs'[r].outcome = "completed"
     /\ (adminReq.pc = "addCredits" /\ adminReq' # adminReq /\ adminReq'.pc = "create") =>
          credits' = adminReq.ucred]_vars

\* C19: the stored credit balance of the account is never negative, whatever
\* the interleaving of deductCredits, addCredits and processRefund.
C19_BalanceNonNegative == credits >= 0

\* C20: an error thrown in processGeneration after the guard stays inside it:
\* the run goes through its catch block and returns, and when the catch
\* block's save is done on a record that still exists, the record is failed
\* with the error's message as failureReason.
C20_ErrorsBecomeFailedRecord ==
  [][\A r \in Runs :
       /\ (runs[r].pc = "catch" /\ Steps(r)) => runs'[r].pc \in {"fail", "done"}
       /\ (runs[r].pc = "fail" /\ Steps(r)) => runs'[r].pc = "done"
       /\ (runs[r].pc = "fail" /\ Steps(r) /\ gens[runs[r].gid].exists) =>
            /\ runs'[r].outcome = "failed"
            /\ gens'[runs[r].gid].status = "failed"
            /\ gens'[runs[r].gid].failureReason = runs[r].err]_vars

\* C21: when the provider call succeeds with no output reference, the run
\* throws 'No images generated' without calling downloadAndUploadToS3 and
\* without touching the record or the balance, it never deducts, and the save
\* of its catch block leaves the record failed with that message as failureReason.
C21_NoImagesIsFailure ==
  [][\A r \in Runs :
       /\ (runs[r].pc = "callFalAI" /\ Steps(r) /\ runs'[r].err = NoImagesGenerated) =>
            /\ runs'[r].pc = "catch"
            /\ runs'[r].uploads = 0
            /\ gens' = gens /\ credits' = credits
       /\ (runs[r].pc \in {"catch", "fail"} /\ Steps(r) /\ runs[r].err = NoImagesGenerated) =>
            /\ credits' = credits
            /\ ~runs'[r].deducted
            /\ runs'[r].pc \in {"fail", "done"}
       /\ (/\ runs[r].pc = "fail" /\ Steps(r) /\ runs[r].err = NoImagesGenerated
           /\ gens[runs[r].gid].exists) =>
            /\ gens'[runs[r].gid].status = "failed"
            /\ gens'[runs[r].gid].failureReason = NoImagesGenerated
            /\ includes(gens'[runs[r].gid].failureReason, "No images")]_vars

\* C22: cancelGeneration starts its fail('Cancelled by user') only for a record
\* of the caller that it read as pending or processing, and when that save
\* resolves the record is failed with the reason 'Cancelled by user'; a request
\* for a completed or failed record is answered 400, one for a record that is
\* missing or belongs to another account 404, and neither changes anything.
C22_CancelOnlyActive ==
  [][/\ \A g \in Gens, caller \in Callers :
          cancelGeneration_findOne(g, caller) =>
            LET cancellable == /\ caller = Owner
                               /\ gens[g].exists
                               /\ gens[g].status \in {"pending", "processing"}
            IN /\ gens' = gens /\ credits' = credits /\ runs' = runs
               /\ cancellable <=> (cancelReq'.pc = "fail" /\ cancelReq'.gid = g)
               /\ ~cancellable => cancelReq'.pc = "idle"
               /\ (caller = Owner /\ gens[g].exists
                     /\ gens[g].status \in {"completed", "failed"}) => cancelReq'.res = "400"
               /\ (caller # Owner \/ ~gens[g].exists) => cancelReq'.res = "404"
     /\ (cancelReq.pc = "fail" /\ cancelReq'.pc = "idle") =>
          LET g == cancelReq.gid IN
          /\ cancelReq'.res \in {"200", "500"}
          /\ cancelReq'.res = "500" => gens' = gens
          /\ cancelReq'.res = "200" =>
               /\ gens'[g].status = "failed"
               /\ gens'[g].failureReason = CancelledByUser
               /\ \A o \in Gens \ {g} : gens'[o] = gens[o]
     /\ cancelReq'.res = "200" => cancelReq.pc = "fail" \/ cancelReq.res = "200"]_vars

\* C23: retryGeneration assigns its reset and starts its save only for a record
\* of the caller that it read as failed, and processGeneration is invoked for a
\* record that already exists only when that save has resolved, which leaves
\* the record pending; a request for a pending, processing or completed record
\* is answered 400, changes nothing and starts no run; a request that
\* requireCredits turns away before the handler changes nothing either.
C23_RetryOnlyFailed ==
  [][/\ retryGeneration_authenticateToken =>
          /\ gens' = gens /\ credits' = credits /\ runs' = runs /\ nextRun' = nextRun
          /\ retryReq'.pc \in {"idle", "findOne"}
          /\ retryReq'.pc = "idle" => retryReq'.res = "403"
     /\ \A g \in Gens, caller \in Callers :
          retryGeneration_findOne(g, caller) =>
            /\ gens' = gens /\ credits' = credits /\ runs' = runs
            /\ retryReq'.pc = "save" =>
                 /\ caller = Owner /\ gens[g].exists /\ gens[g].status = "failed"
                 /\ retryReq'.gid = g
            /\ (caller = Owner /\ gens[g].exists
                  /\ gens[g].status \in {"pending", "processing", "completed"}) =>
                 /\ retryReq'.pc = "idle"
                 /\ retryReq'.res = "400"
                 /\ nextRun' = nextRun
     /\ (retryReq.pc = "save" /\ retryReq'.pc = "idle") =>
          LET g == retryReq.gid IN
          /\ retryReq'.res \in {"200", "500"}
          /\ retryReq'.res = "500" => (gens' = gens /\ runs' = runs)
          /\ retryReq'.res = "200" =>
               /\ gens'[g].status = "pending"
               /\ runs'[retryReq.run] = started(g)
               /\ \A r \in Runs \ {retryReq.run} : runs'[r] = runs[r]
     /\ \A r \in Runs :
          (runs[r].pc = "idle" /\ runs'[r].pc # "idle") =>
             \/ nextGen' = nextGen + 1 /\ runs'[r].gid = nextGen
             \/ retryReq.pc = "save" /\ retryReq'.res = "200" /\ runs'[r].gid = retryReq.gid]_vars

\* C23 witness: a retry request for the only record, found completed, was
\* answered 400; the record is still completed and no second run was started.
C23_Witness ==
  /\ retryReq.res = "400"
  /\ nextGen = 2 /\ nextRun = 2
  /\ gens[1].exists
  /\ gens[1].status = "completed"
  /\ runs[1].pc = "done" /\ runs[2].pc = "idle"

\* C24: in every reachable state, a record that carries a failureReason is
\* failed: a pending, processing or completed record has none.
C24_FailureReasonOnlyWhenFailed ==
  \A g \in Gens :
    (gens[g].exists /\ gens[g].failureReason # NULL) => gens[g].status = "failed"

\* Every processGeneration run that has passed the pending guard returns, and
\* a record that is processing becomes completed or failed.
C25_RunsReturn ==
  /\ \A r \in Runs : ActiveRun(r) ~> (runs[r].pc = "done")
  /\ \A g \in Gens :
       (gens[g].status = "processing") ~> (gens[g].status \in {"completed", "failed"})

\* A run makes at most maxRetries + 1 provider calls: attempt counts the calls
\* that were followed by a backoff sleep.
C25_RetryLoopBounded ==
  \A r \in Runs : /\ runs[r].attempt \in 0..maxRetries
                   /\ runs[r].pc = "sleep" => runs[r].attempt < maxRetries

\* C25: when every await resolves or rejects and every save finds its record,
\* every processGeneration run that has passed the pending guard returns, and
\* the save of its complete() or of its catch block's fail() leaves the record
\* completed or failed; a record that is processing becomes completed or
\* failed; every run makes at most maxRetries + 1 provider calls.
C25_RunsTerminate ==
  /\ C25_RunsReturn
  /\ [][\A r \in Runs :
          (runs[r].pc \in {"complete", "fail"} /\ Steps(r)) =>
            gens'[runs[r].gid].status \in {"completed", "failed"}]_vars
  /\ []C25_RetryLoopBounded

\* C26: within one processGeneration run, the provider is invoked only after
\* the save of startProcessing() has left the record processing with
\* processingStartedAt set; downloadAndUploadToS3 is called only between the
\* provider's result and the save of complete(); and the account is read and
\* the balance written only after that save has left the record completed
\* with the generatedImageUrls the run collected.
C26_SideEffectOrder ==
  [][\A r \in Runs : Steps(r) =>
       LET g == runs[r].gid
           AfterProvider == {"callFalAI", "get", "uploadImage"}
       IN
       /\ runs'[r].pc = "callFalAI" =>
            /\ runs[r].pc \in {"startProcessing", "sleep"}
            /\ runs[r].pc = "startProcessing" =>
                 /\ gens'[g].status = "processing"
                 /\ gens'[g].processingStartedAt = SET
            /\ runs'[r].uploads = 0
       /\ runs'[r].pc = "sleep" => (runs[r].pc = "callFalAI" /\ runs'[r].uploads = 0)
       /\ runs'[r].uploads > runs[r].uploads =>
            /\ runs[r].pc \in AfterProvider
            /\ runs'[r].pc \in {"get", "complete", "catch"}
       /\ runs'[r].pc \in {"get", "uploadImage"} =>
            /\ runs[r].pc \in AfterProvider
            /\ runs'[r].uploads >= 1
            /\ gens' = gens /\ credits' = credits
       /\ runs'[r].pc = "complete" =>
            /\ runs[r].pc \in AfterProvider
            /\ runs'[r].uploads >= 1
            /\ gens' = gens
       /\ runs'[r].pc = "findUser" =>
            /\ runs[r].pc = "complete"
            /\ runs[r].uploads >= 1
            /\ gens'[g].status = "completed"
            /\ Len(runs[r].doc.generatedImageUrls) >= 1 =>
                 gens'[g].generatedImageUrls = runs[r].doc.generatedImageUrls
            /\ credits' = credits
       /\ runs'[r].pc = "deductCredits" => (runs[r].pc = "findUser" /\ credits' = credits)
       /\ credits' # credits =>
            /\ runs[r].pc = "deductCredits"
            /\ gens' = gens]_vars

\* C26 witness: a run has gone through every side effect: its record is
\* completed with a stored output reference and processingStartedAt, and the
\* balance is lower by the record's creditsUsed.
C26_Witness ==
  \E r \in Runs :
    /\ runs[r].pc = "done" /\ runs[r].outcome = "completed" /\ runs[r].deducted
    /\ gens[runs[r].gid].status = "completed"
    /\ gens[runs[r].gid].processingStartedAt = SET
    /\ Len(gens[runs[r].gid].generatedImageUrls) = 1
    /\ gens[runs[r].gid].generatedImageUrls[1].scheme = "s3"
    /\ credits = InitialCredits - gens[runs[r].gid].creditsUsed

\* C27: when the runs of two different records of the account have both
\* completed and deducted, the balance covered both and nothing else touched
\* the account (no purchase, no admin request), the stored balance is lower by
\* the sum of the two records' creditsUsed.
C27_ConcurrentDeductionsAdd ==
  \A r1, r2 \in Runs :
    (/\ r1 # r2
     /\ runs[r1].gid # runs[r2].gid
     /\ runs[r1].pc = "done" /\ runs[r1].deducted
     /\ runs[r2].pc = "done" /\ runs[r2].deducted
     /\ gens[runs[r1].gid].creditsUsed + gens[runs[r2].gid].creditsUsed <= InitialCredits
     /\ txns = Registered
     /\ budget.adminCredits = MaxAdminCredits)
      => credits = InitialCredits
                     - (gens[runs[r1].gid].creditsUsed + gens[runs[r2].gid].creditsUsed)

RECURSIVE CreditsPurchased(_)
\* The credits of the packages bought by transactions 1..t.
CreditsPurchased(t) ==
  IF t = 0 THEN 0
  ELSE CreditsPurchased(t - 1) + (IF t \in purchases THEN txns[t].creditsAdded ELSE 0)

\* C28: for every transaction, at most one delivery (confirmPayment or the
\* payment_intent.succeeded webhook) adds the purchased credits to the account,
\* so the balance never exceeds the initial balance plus the credits purchased.
C28_CreditsAppliedOnce ==
  /\ budget.adminCredits = MaxAdminCredits =>
       credits <= InitialCredits + CreditsPurchased(MaxTxns)
  /\ \A t \in Txns :
       Cardinality({h \in Deliveries : pays[h].tid = t /\ pays[h].applied}) <= 1

\* C29, for the payment transactions (the purchases) of the account:
\* refundPayment goes on to refund only a transaction it found completed;
\* a request that finds the transaction pending, failed or refunded ends
\* without changing the balance or the transaction.  processRefund removes
\* min(balance it read, creditsAdded) credits, never more than the transaction
\* added, and then saves the transaction as refunded; of the refund requests
\* for one transaction at most one removes credits.
C29_RefundOnce ==
  [][/\ \A q \in RefundReqs, t \in purchases, withinDay \in BOOLEAN :
          refundPayment_findOne(q, t, withinDay) =>
            /\ credits' = credits /\ txns' = txns
            /\ refunds'[q].pc = "refunds" => txns[t].status = "completed"
            /\ (txns[t].status = "completed" /\ ~tooLate(txns[t], withinDay)) =>
                 refunds'[q].pc = "refunds"
            /\ txns[t].status # "completed" =>
                 (refunds'[q].pc = "done" /\ refunds'[q].res = "404")
     /\ \A q \in RefundReqs :
          LET t == refunds[q].tid IN
          /\ (t \in purchases /\ refunds[q].pc = "refunds" /\ refunds'[q] # refunds[q]) =>
               /\ credits' = credits
               /\ txns'[t].status = txns[t].status
               /\ txns[t].refundedAtStripe =>
                    (refunds'[q].pc = "done" /\ refunds'[q].res = "500")
          /\ (t \in purchases /\ refunds[q].pc = "findUser" /\ refunds'[q] # refunds[q]) =>
               /\ credits' = credits
               /\ refunds'[q].pc = "inc" =>
                    /\ refunds'[q].creditsToDeduct = Min(credits, txns[t].creditsAdded)
                    /\ refunds'[q].creditsToDeduct <= txns[t].creditsAdded
          /\ (t \in purchases /\ refunds[q].pc = "inc" /\ refunds'[q] # refunds[q]) =>
               /\ credits - credits' = refunds[q].creditsToDeduct
               /\ credits - credits' <= txns[t].creditsAdded
               /\ refunds'[q].pc = "refund"
          /\ (t \in purchases /\ refunds[q].pc = "refund" /\ refunds'[q] # refunds[q]) =>
               /\ txns[t].status = "completed"
               /\ txns'[t].status = "refunded"
               /\ credits' = credits
          /\ refunds[q].pc = "done" => refunds'[q] = refunds[q]
     /\ \A t \in purchases :
          Cardinality({q \in RefundReqs :
                         /\ refunds'[q].tid = t
                         /\ refunds'[q].pc \in {"findUser", "inc", "refund"}}) <= 1
     /\ \A t \in purchases :
          Cardinality({q \in RefundReqs :
                         refunds'[q].tid = t /\ refunds'[q].creditsToDeduct > 0}) <= 1]_vars

\* C30: when refreshToken answers 200 for token T, T is no longer among the
\* stored refresh tokens and the token it issued is; a refreshToken call
\* presenting a token that is not stored is answered 401 and stores nothing;
\* when logout without a token or logoutAll answers 200, no refresh token is stored.
C30_RefreshTokenSingleUse ==
  [][/\ \A s \in RefreshReqs :
          /\ (auth.refresh[s].pc = "save" /\ auth'.refresh[s].res = "200") =>
               /\ ~some(auth'.refreshTokens, auth.refresh[s].token)
               /\ some(auth'.refreshTokens, auth'.refresh[s].newRefreshToken)
          /\ (auth.refresh[s].pc = "idle" /\ auth'.refresh[s].pc # "idle"
                /\ ~some(auth.refreshTokens, auth'.refresh[s].token)) =>
               /\ auth'.refresh[s].res = "401"
               /\ auth'.refreshTokens = auth.refreshTokens
     /\ \A s \in LogoutReqs :
          (/\ auth.logout[s].pc = "save" /\ auth'.logout[s].res = "200"
           /\ auth.logout[s].kind \in {"logout", "logoutAll"}) =>
             auth'.refreshTokens = <<>>]_vars

====
